---- MODULE Spec2Model ----
(***************************************************************************)
(* A model of the psycopg3 core: the nonblocking connection engine         *)
(* (psycopg3/connection.py) and the adaptation engine                      *)
(* (psycopg3/_transform.py, psycopg3/adapt.py).                            *)
(*                                                                         *)
(* Spec      the life of one connection: connect(), then commit() and      *)
(*           rollback() called from concurrent threads.                    *)
(* FairSpec  Spec with the fairness of the server, the waiter and the      *)
(*           running generators.                                           *)
(* AdaptSpec the registry of dumpers and loaders and one Transformer:      *)
(*           register() calls, get_dumper() and get_loader().              *)
(***************************************************************************)
EXTENDS Integers, Sequences, FiniteSets, TLC

\* ------------------------------------------------------------------ bounds

\* longest script of polling verdicts the native client answers in a connect
MaxVerdicts == 2
\* polls of the waiter that find the socket not ready, per wait
MaxPolls == 1
\* flush calls that report more data to write, per command
MaxFlush == 1
\* results the server sends in reply to one command
MaxResults == 2
\* register() calls made after the package is imported
MaxReg == 2
\* Dumper and Loader objects constructed
MaxInst == 2
\* columns and rows of a result
MaxFields == 2
MaxTuples == 1
\* items of a dumped tuple and bytes of the text form of an item
MaxItems == 2
MaxBytes == 2

\* ------------------------------------------------------- native client (pq)

Threads == {"t1", "t2"}

\* pq.ConnStatus, as far as the connect machine reads it
ConnStatus == {"STARTED", "MADE", "OK", "BAD"}
\* pq.PollingStatus; ACTIVE is the verdict libpq defines and never gives
PollingStatus == {"OK", "READING", "WRITING", "FAILED", "ACTIVE"}
\* pq.TransactionStatus
TransactionStatus == {"IDLE", "ACTIVE", "INTRANS", "INERROR", "UNKNOWN"}
\* pq.ExecStatus of the results a commit or rollback can get
ExecStatus == {"COMMAND_OK", "FATAL_ERROR"}

\* One step of the native client's connect: the verdict connect_poll gives
\* and the connection status it leaves.
\* OK leaves the connection OK and FAILED leaves it BAD.
PollStep ==
    { s \in [verdict : PollingStatus, status : ConnStatus \ {"STARTED"}] :
        /\ s.verdict = "OK" <=> s.status = "OK"
        /\ s.verdict = "FAILED" => s.status = "BAD" }

\* a step after which the connect machine polls again
Continues(s) == s.verdict \in {"READING", "WRITING"} /\ s.status # "BAD"

\* The behaviours of the native client during one connect: verdicts that ask
\* for more I/O, then one that ends the attempt.
PollScripts ==
    { s \in UNION { [1..n -> PollStep] : n \in 1..MaxVerdicts } :
        /\ \A i \in 1..(Len(s) - 1) : Continues(s[i])
        /\ ~Continues(s[Len(s)]) }

\* The messages of the server's reply to one command: the results, then
\* ReadyForQuery (Z) carrying the transaction status.
ResultMsg(st) == [type |-> "result", status |-> st]
ReadyMsg(ts) == [type |-> "Z", status |-> ts]

RECURSIVE ResultLists(_)
ResultLists(n) ==
    IF n = 0 THEN { <<>> }
    ELSE LET shorter == ResultLists(n - 1)
         IN shorter \cup { Append(r, st) : r \in { x \in shorter : Len(x) = n - 1 },
                                           st \in ExecStatus }

ToMsgs(rs) == [i \in 1..Len(rs) |-> ResultMsg(rs[i])]

\* the state of a PGconn that has no command in progress and no data pending
IdlePGconn(st, xact) ==
    [status |-> st, nonblocking |-> 0, xact |-> xact, active |-> FALSE,
     outq |-> 0, sock |-> <<>>, part |-> FALSE, inbuf |-> <<>>,
     broken |-> FALSE]

\* PGconn.transaction_status: ACTIVE while a command is in progress
transaction_status(p) == IF p.active THEN "ACTIVE" ELSE p.xact

\* PGconn.send_query: queue the command for sending; n flush calls will
\* report more data to write before the last one reports 0
send_query(p, n) == [p EXCEPT !.active = TRUE, !.outq = n]

\* PGconn.flush: its return value and the PGconn it leaves
\* (0 when all is sent, 1 when data is left to send, -1 on a socket that
\* failed)
flush_rv(p) == IF p.broken THEN -1 ELSE IF p.outq = 0 THEN 0 ELSE 1
flush(p) == IF p.broken \/ p.outq = 0 THEN p ELSE [p EXCEPT !.outq = @ - 1]

\* PGconn.consume_input: read what the socket holds, without blocking
consume_input(p) ==
    [p EXCEPT !.inbuf = p.inbuf \o p.sock, !.sock = <<>>, !.part = FALSE]

\* PGconn.is_busy: get_result would have to wait for the server
is_busy(p) == p.active /\ p.inbuf = <<>>

\* the socket has bytes to read
Readable(p) == p.sock # <<>> \/ p.part

\* Ready values the waiter can resume a generator with, for a wait interest
ReadyFor(p, interest) ==
    (IF interest \in {"R", "RW"} /\ Readable(p) THEN {"R"} ELSE {})
    \cup (IF interest \in {"W", "RW"} THEN {"W"} ELSE {})

\* ------------------------------------------------------------------- state

VARIABLES
    cpc,            \* where Connection.connect() is
    start_status,   \* the status connect_start will leave the PGconn in
    poll_script,    \* what the native client will answer to connect_poll
    npolled,        \* connect_poll calls made
    verdict,        \* the last polling verdict ("NONE" before the first)
    cinterest,      \* the Wait the connect generator yielded
    cpolls,         \* polls of the current connect wait that found not ready
    nb_sets,        \* assignments made to conn.nonblocking
    conn_error,     \* the exception connect() ended with
    facade,         \* a Connection object was constructed
    pgconn,         \* the PGconn
    wire,           \* messages the server has still to send
    reply,          \* the results the server answers each thread's command with
    lock,           \* Connection.lock: "free" or the thread holding it
    pc,             \* where each thread is in _exec_commit_rollback
    command,        \* the command of each thread's call
    status,         \* the transaction status each thread read
    results,        \* the results list of each thread's _exec_gen
    outcome,        \* how each thread's last call ended
    polls,          \* polls of each thread's current wait that found not ready
    ready,          \* the Ready each thread's _exec_gen was resumed with (line 90)
    dumpers,        \* the dumpers maps: Dumper.globals and each context's
    loaders,        \* the loaders maps: Loader.globals and each context's
    tx,             \* the Transformer objects
    ninst,          \* Dumper and Loader objects constructed so far
    nreg,           \* register() calls made after start-up
    side,           \* the half of the adaptation interface the run exercises
    last,           \* the call just made on a Transformer and what it gave
    row,            \* the result attached to the Transformer and its row loaders
    rcall,          \* the load_row call just made and what it gave
    codec,          \* a tuple, what TupleDumper made of it, what RecordLoader read
    rbl             \* the RecordBinaryLoader object: its _types_set

conn_vars == <<cpc, start_status, poll_script, npolled, verdict, cinterest, cpolls, nb_sets,
               conn_error, facade>>
native_vars == <<pgconn, wire, reply>>
thread_vars == <<lock, pc, command, status, results, outcome, polls, ready>>
adapt_vars == <<dumpers, loaders, tx, ninst, nreg, side, last>>
data_vars == <<row, rcall, codec, rbl>>
vars == <<conn_vars, native_vars, thread_vars, adapt_vars, data_vars>>

\* ------------------------------------------------- adaptation: the data

\* The classes of the values adapted: a named tuple class defined by the
\* application, the tuple it derives from, and object.
Types == {"Point", "tuple", "object"}

\* cls.__mro__
mro(c) ==
    CASE c = "Point" -> <<"Point", "tuple", "object">>
      [] c = "tuple" -> <<"tuple", "object">>
      [] OTHER -> <<"object">>

\* cls.__module__ and cls.__qualname__
module(c) == IF c = "Point" THEN "app" ELSE "builtins"
qualname(c) == c

\* pq.Format
Formats == {"TEXT", "BINARY"}

\* the oid of an unknown type, of text and of record
INVALID_OID == 0
TEXT_OID == 25
RECORD_OID == 2249

\* the type modifier of a column: none
Fmods == {-1}

\* Keys of a DumpersMap are (class, format) or (name, format).
TypeKey(c) == <<"type", c>>
NameKey(n) == <<"str", n>>
\* What register() is given as src or as oid is a pair of its Python type and
\* its value: a class, a str, an int, or something else.
OidKey(oid) == <<"int", oid>>
NoKey == <<"NoneType", "None">>

\* the name get_dumper looks for when it walks the class scls of a value of
\* class cls
fqn(cls, scls) == module(cls) \o "." \o qualname(scls)

\* The Transformer objects of the model, and the contexts an adapter is
\* registered in or a Transformer is made from: None, the connection, a
\* cursor of it, or a Transformer.
TxIds == {"tx1"}
Contexts == {"None", "connection", "cursor"} \cup TxIds
\* the Transformers an adapter of a nested type makes for its items, usually
\* from the Transformer it was made by, and all the Transformers
NestedIds == {"tx2", "tx3"}
AllTx == TxIds \cup NestedIds

\* The maps: Dumper.globals / Loader.globals, connection.dumpers,
\* cursor.dumpers and the dict each Transformer makes for itself.
MapIds == {"global", "connection", "cursor"} \cup AllTx

\* dict(), d.get(k), d[k] = v
EmptyMap == [k \in {} |-> "None"]
MapGet(d, k) == IF k \in DOMAIN d THEN d[k] ELSE "None"
MapSet(d, k, v) == [j \in DOMAIN d \cup {k} |-> IF j = k THEN v ELSE d[j]]

\* A Dumper or Loader object: its class, what __init__ stored (src, or oid
\* and fmod, and the context) and its identity: the format it was made for
\* and its number among the objects made for one key of the cache (every
\* new object is stored in the cache, so the key holds the last of them).
\* Two objects are the same object iff the records are equal. The Transformer a TupleDumper
\* or a composite loader makes for its items is state of that object, used
\* when it dumps or loads, and is not part of the registry modelled here.
NoInst ==
    [cls |-> "None", src |-> "None", oid |-> INVALID_OID, fmod |-> -1,
     context |-> "None", format |-> "None", id |-> 0]
\* the number of the next object made for the key of the cache
next_id(cache, key) == IF key \in DOMAIN cache THEN cache[key].id + 1 ELSE 1
\* Dumper.__init__
NewDumper(cls, src, context, format, id) ==
    [cls |-> cls, src |-> src, oid |-> INVALID_OID, fmod |-> -1,
     context |-> context, format |-> format, id |-> id]
\* Loader.__init__
NewLoader(cls, oid, fmod, context, format, id) ==
    [cls |-> cls, src |-> "None", oid |-> oid, fmod |-> fmod,
     context |-> context, format |-> format, id |-> id]

\* no call made
NoCall ==
    [op |-> "none", tx |-> "None", cls |-> "None", oid |-> INVALID_OID,
     format |-> "None", fmod |-> -1, cached |-> FALSE, ret |-> NoInst,
     error |-> "None", key |-> NoKey, context |-> "None"]

\* a Transformer not constructed yet
NoTx ==
    [made |-> FALSE, context |-> "None", dumpers |-> "None",
     loaders |-> "None", dumpers_maps |-> <<>>, loaders_maps |-> <<>>,
     dumpers_cache |-> EmptyMap, loaders_cache |-> EmptyMap]

\* The adapters registered when the package is imported: TupleDumper for
\* tuple, the record loaders, and the loaders of unknown oids get_loader
\* falls back on.
DumperGlobals == MapSet(EmptyMap, <<TypeKey("tuple"), "TEXT">>, "TupleDumper")
RecordLoaders(f) == IF f = "TEXT" THEN "RecordLoader" ELSE "RecordBinaryLoader"
UnknownLoaders(f) == IF f = "TEXT" THEN "UnknownLoader" ELSE "UnknownBinaryLoader"
LoaderGlobals ==
    [k \in {INVALID_OID, RECORD_OID} \X Formats |->
        IF k[1] = RECORD_OID THEN RecordLoaders(k[2]) ELSE UnknownLoaders(k[2])]

\* The Dumper and Loader subclasses register() is called on: the application
\* registers a class of its own in each context.
DumperClass(context) ==
    CASE context = "None" -> "AppDumper"
      [] context = "connection" -> "ConnDumper"
      [] context = "cursor" -> "CursorDumper"
      [] OTHER -> "QueryDumper"
LoaderClass(context) ==
    CASE context = "None" -> "AppLoader"
      [] context = "connection" -> "ConnLoader"
      [] context = "cursor" -> "CursorLoader"
      [] OTHER -> "QueryLoader"
\* what a dumper is registered on, and what a loader is
DumperSrcs == {TypeKey("tuple"), TypeKey("object")}
LoaderOids == {TEXT_OID}

\* ------------------------------------------------ row loading: the data

\* what PGresult.get_value gives for a cell: None for NULL, or its bytes
Cells == {"None", "b"}

\* no result: what Transformer.pgresult holds before one is attached
NoResult ==
    [none |-> TRUE, nfields |-> 0, ntuples |-> 0, ftype |-> <<>>,
     format |-> "None", value |-> EmptyMap]

\* the format of the results of the row-loading runs
RowFormats == {"TEXT"}

\* A PGresult: nfields, ntuples, the oid of each column (ftype(i) is
\* ftype[i + 1]), the format of the columns (fformat), and the cells
\* (get_value(r, c) is value[<<r, c>>]). The type modifier of every column
\* (fmod) is -1.
PGresults ==
    UNION {
        UNION {
            [none : {FALSE}, nfields : {nf}, ntuples : {nt},
             ftype : [1..nf -> {TEXT_OID, RECORD_OID}],
             format : RowFormats,
             value : [(0..(nt - 1)) \X (0..(nf - 1)) -> Cells]]
            : nt \in 0..MaxTuples }
        : nf \in 0..MaxFields }

\* the Transformer before __init__ set its pgresult
NoRow ==
    [pgresult |-> NoResult, nfields |-> 0, ntuples |-> 0, row_loaders |-> <<>>]

\* what a loader makes of the bytes of a cell: the value loaded, which says
\* which Loader object loaded it; a NULL is nobody's
Loaded(loader, data) == [null |-> FALSE, by |-> loader, data |-> data]
NullValue == [null |-> TRUE, by |-> NoInst, data |-> "None"]

\* no load_row call made
NoRowCall ==
    [op |-> "none", arg |-> 0, none |-> FALSE, ret |-> <<>>, invoked |-> {},
     error |-> "None"]

\* no tuple dumped
NoCodec == [op |-> "none", t |-> <<>>, dumped |-> <<>>, loaded |-> <<>>]

\* nothing loaded, nothing dumped
DataRest ==
    /\ row = NoRow
    /\ rcall = NoRowCall
    /\ codec = NoCodec
    /\ rbl = [types_set |-> FALSE]

AdaptRest(sd) ==
    /\ dumpers = [i \in MapIds |-> IF i = "global" THEN DumperGlobals ELSE EmptyMap]
    /\ loaders = [i \in MapIds |-> IF i = "global" THEN LoaderGlobals ELSE EmptyMap]
    /\ tx = [x \in AllTx |-> NoTx]
    /\ ninst = 0
    /\ nreg = 0
    /\ side = sd
    /\ last = NoCall

\* The adaptation runs on a connection at rest, connected. A run exercises
\* the dumpers or the loaders: get_dumper and Dumper.register touch no state
\* of get_loader and Loader.register, nor the reverse.
AdaptInit ==
    /\ cpc = "connected"
    /\ start_status = "none"
    /\ poll_script = <<>>
    /\ npolled = 0
    /\ verdict = "NONE"
    /\ cinterest = "none"
    /\ cpolls = 0
    /\ nb_sets = 1
    /\ conn_error = "none"
    /\ facade = TRUE
    /\ pgconn = [IdlePGconn("OK", "IDLE") EXCEPT !.nonblocking = 1]
    /\ wire = <<>>
    /\ reply = [t \in Threads |-> <<>>]
    /\ lock = "free"
    /\ pc = [t \in Threads |-> "idle"]
    /\ command = [t \in Threads |-> "none"]
    /\ status = [t \in Threads |-> "none"]
    /\ results = [t \in Threads |-> <<>>]
    /\ outcome = [t \in Threads |-> "none"]
    /\ polls = [t \in Threads |-> 0]
    /\ ready = [t \in Threads |-> "none"]
    /\ \E sd \in {"dumpers", "loaders"} : AdaptRest(sd)
    /\ DataRest

Init ==
    /\ cpc = "start"
    /\ start_status \in {"STARTED", "BAD"}
    /\ poll_script \in PollScripts
    /\ npolled = 0
    /\ verdict = "NONE"
    /\ cinterest = "none"
    /\ cpolls = 0
    /\ nb_sets = 0
    /\ conn_error = "none"
    /\ facade = FALSE
    /\ pgconn = IdlePGconn("none", "IDLE")
    /\ wire = <<>>
    /\ reply = [t \in Threads |-> <<>>]
    /\ lock = "free"
    /\ pc = [t \in Threads |-> "idle"]
    /\ command = [t \in Threads |-> "none"]
    /\ status = [t \in Threads |-> "none"]
    /\ results = [t \in Threads |-> <<>>]
    /\ outcome = [t \in Threads |-> "none"]
    /\ polls = [t \in Threads |-> 0]
    /\ ready = [t \in Threads |-> "none"]
    /\ AdaptRest("dumpers")
    /\ DataRest


\* ------------------------------------------- BaseConnection._connect_gen

\* How one iteration of the loop of _connect_gen ends: by "return", "yield"
\* or "raise", with the Wait yielded, the exception raised, the PGconn it
\* leaves and the number of assignments it made to conn.nonblocking.
GenStep(ends, wait, error, conn, nb) ==
    [ends |-> ends, wait |-> wait, error |-> error, conn |-> conn, nb |-> nb]

\* a variant of connect_gen_step that sets the flag before it dispatches
connect_gen_step_early_flag(p, s) ==
    IF p.status = "BAD"
    THEN GenStep("raise", "none", "OperationalError", p, 0)
    ELSE LET q == [p EXCEPT !.status = s.status, !.nonblocking = 1]
         IN CASE s.verdict = "OK" -> GenStep("return", "none", "none", q, 1)
              [] s.verdict = "READING" -> GenStep("yield", "R", "none", q, 1)
              [] s.verdict = "WRITING" -> GenStep("yield", "W", "none", q, 1)
              [] s.verdict = "FAILED" ->
                   GenStep("raise", "none", "OperationalError", q, 1)
              [] OTHER -> GenStep("raise", "none", "InternalError", q, 1)

\* a variant of connect_gen_step that takes every verdict but READING and
\* WRITING for the end of the poll loop
connect_gen_step_no_failed(p, s) ==
    IF p.status = "BAD"
    THEN GenStep("raise", "none", "OperationalError", p, 0)
    ELSE LET q == [p EXCEPT !.status = s.status]
         IN CASE s.verdict = "READING" -> GenStep("yield", "R", "none", q, 0)
              [] s.verdict = "WRITING" -> GenStep("yield", "W", "none", q, 0)
              [] OTHER ->
                   GenStep("return", "none", "none", [q EXCEPT !.nonblocking = 1], 1)

\* a variant of connect_gen_step that waits for the socket to be writable
\* after either verdict
connect_gen_step_always_w(p, s) ==
    IF p.status = "BAD"
    THEN GenStep("raise", "none", "OperationalError", p, 0)
    ELSE LET q == [p EXCEPT !.status = s.status]
         IN CASE s.verdict = "OK" ->
                   GenStep("return", "none", "none", [q EXCEPT !.nonblocking = 1], 1)
              [] s.verdict = "READING" -> GenStep("yield", "W", "none", q, 0)
              [] s.verdict = "WRITING" -> GenStep("yield", "W", "none", q, 0)
              [] s.verdict = "FAILED" ->
                   GenStep("raise", "none", "OperationalError", q, 0)
              [] OTHER -> GenStep("raise", "none", "InternalError", q, 0)

\* One iteration of the loop of _connect_gen on PGconn p, the native client
\* answering connect_poll with step s.
connect_gen_step(p, s) ==
    IF p.status = "BAD"
    THEN GenStep("raise", "none", "OperationalError", p, 0)
    ELSE LET q == [p EXCEPT !.status = s.status]
         IN CASE s.verdict = "OK" ->
                   GenStep("return", "none", "none", [q EXCEPT !.nonblocking = 1], 1)
              [] s.verdict = "READING" -> GenStep("yield", "R", "none", q, 0)
              [] s.verdict = "WRITING" -> GenStep("yield", "W", "none", q, 0)
              [] s.verdict = "FAILED" ->
                   GenStep("raise", "none", "OperationalError", q, 0)
              [] OTHER -> GenStep("raise", "none", "InternalError", q, 0)

\* connect(): make the conninfo, create the generator, start waiting on it;
\* the generator calls connect_start
ConnectStart ==
    /\ cpc = "start"
    /\ cpc' = "loop"
    /\ pgconn' = IdlePGconn(start_status, "IDLE")
    /\ UNCHANGED <<data_vars, adapt_vars, start_status, poll_script, npolled, verdict, cinterest, cpolls,
                   nb_sets, conn_error, facade, wire, reply, thread_vars>>

\* the generator runs one iteration of its loop, up to its next yield, its
\* return or its exception
ConnectLoop ==
    /\ cpc = "loop"
    /\ LET bad == pgconn.status = "BAD"
           s == poll_script[npolled + 1]
           r == connect_gen_step(pgconn, s)
       IN /\ pgconn' = r.conn
          /\ npolled' = IF bad THEN npolled ELSE npolled + 1
          /\ verdict' = IF bad THEN verdict ELSE s.verdict
          /\ nb_sets' = nb_sets + r.nb
          /\ cinterest' = r.wait
          /\ conn_error' = r.error
          /\ cpc' = CASE r.ends = "return" -> "returned"
                      [] r.ends = "yield" -> "wait"
                      [] OTHER -> "failed"
    /\ UNCHANGED <<data_vars, adapt_vars, start_status, poll_script, cpolls, facade, wire, reply,
                   thread_vars>>

\* the waiter polls the socket and finds it not ready
ConnectNotReady ==
    /\ cpc = "wait"
    /\ cpolls < MaxPolls
    /\ cpolls' = cpolls + 1
    /\ UNCHANGED <<data_vars, adapt_vars, cpc, start_status, poll_script, npolled, verdict, cinterest,
                   nb_sets, conn_error, facade, native_vars, thread_vars>>

\* the waiter finds the socket ready and resumes the generator
ConnectResume ==
    /\ cpc = "wait"
    /\ cpc' = "loop"
    /\ cinterest' = "none"
    /\ cpolls' = 0
    /\ UNCHANGED <<data_vars, adapt_vars, start_status, poll_script, npolled, verdict, nb_sets,
                   conn_error, facade, native_vars, thread_vars>>

\* connect() wraps the handle the waiter returned: cls(pgconn). The
\* generator and its locals are gone.
ConnectFacade ==
    /\ cpc = "returned"
    /\ cpc' = "connected"
    /\ facade' = TRUE
    /\ poll_script' = <<>>
    /\ start_status' = "none"
    /\ npolled' = 0
    /\ verdict' = "NONE"
    /\ UNCHANGED <<data_vars, adapt_vars, cinterest, cpolls, nb_sets, conn_error, native_vars,
                   thread_vars>>


\* ------------------------------------ Connection._exec_commit_rollback

\* the positions of a thread inside the `with self.lock` block
InCall == {"locked", "flush", "wait_rw", "drain", "wait_r", "blocked"}

\* a lock that anyone can take at any time
lock_always_free(l) == TRUE

\* `with self.lock` can be entered
lock_free(l) == l = "free"

\* a status test that lets IDLE through and stops on ACTIVE instead
returns_on_active(st) == st = "ACTIVE"

\* line 136: the transaction status on which the call returns at once
returns_silently(st) == st = "IDLE"

\* a facade that reports a result list of the wrong length as it reports a
\* result of the wrong status
check_results_lenient(rs) ==
    IF Len(rs) = 1 /\ rs[1] = "COMMAND_OK" THEN "ok" ELSE "OperationalError"

\* lines 140-145: `(pgres,) = ...` and the test of pgres.status; how the call
\* ends for the list of results rs
check_results(rs) ==
    IF Len(rs) # 1 THEN "ValueError"
    ELSE IF rs[1] # "COMMAND_OK" THEN "OperationalError"
    ELSE "ok"

\* a drain loop that waits when the client is not busy
drain_waits_inverted(p) == ~is_busy(p)

\* line 97: the drain loop yields (fd, R)
drain_waits(p) == is_busy(p)

\* a thread calls commit() or rollback(); each thread makes one call
Call(t, cmd) ==
    /\ facade
    /\ pc[t] = "idle"
    /\ pc' = [pc EXCEPT ![t] = "acquire"]
    /\ command' = [command EXCEPT ![t] = cmd]
    /\ UNCHANGED <<data_vars, adapt_vars, conn_vars, native_vars, lock, status, results, outcome, polls, ready>>

\* line 134: `with self.lock`
Acquire(t) ==
    /\ pc[t] = "acquire"
    /\ lock_free(lock)
    /\ lock' = t
    /\ pc' = [pc EXCEPT ![t] = "locked"]
    /\ UNCHANGED <<data_vars, adapt_vars, conn_vars, native_vars, command, status, results, outcome,
                   polls, ready>>

\* the call ends: the `with` block is left and the lock released
Leave(t, how) ==
    /\ pc' = [pc EXCEPT ![t] = "done"]
    /\ outcome' = [outcome EXCEPT ![t] = how]
    /\ command' = [command EXCEPT ![t] = "none"]
    /\ lock' = "free"

\* lines 135-139: read the transaction status; return if IDLE, otherwise
\* hand the command to the native client and create the generator. The
\* server will answer with some results and ReadyForQuery.
ReadStatus(t) ==
    /\ pc[t] = "locked"
    /\ status' = [status EXCEPT ![t] = transaction_status(pgconn)]
    /\ IF returns_silently(transaction_status(pgconn))
       THEN /\ Leave(t, "ok")
            /\ UNCHANGED <<native_vars, results>>
       ELSE /\ \E n \in 0..MaxFlush, rs \in ResultLists(MaxResults) :
                  /\ pgconn' = send_query(pgconn, n)
                  /\ reply' = [reply EXCEPT ![t] = rs]
                  /\ wire' = wire \o ToMsgs(rs) \o <<ReadyMsg("IDLE")>>
            /\ command' = [command EXCEPT ![t] = "none"]
            /\ pc' = [pc EXCEPT ![t] = "flush"]
            /\ UNCHANGED <<lock, outcome, results>>
    /\ UNCHANGED <<data_vars, adapt_vars, conn_vars, polls, ready>>

\* --------------------------------------------- BaseConnection._exec_gen

\* lines 85-90: flush; leave the loop on 0, otherwise yield (fd, RW)
ExecFlush(t) ==
    /\ pc[t] = "flush"
    /\ IF flush_rv(pgconn) = 0
       THEN /\ pc' = [pc EXCEPT ![t] = "drain"]
            /\ UNCHANGED pgconn
       ELSE /\ pgconn' = flush(pgconn)
            /\ pc' = [pc EXCEPT ![t] = "wait_rw"]
    /\ ready' = [ready EXCEPT ![t] = "none"]
    /\ UNCHANGED <<data_vars, adapt_vars, conn_vars, wire, reply, lock, command, status, results,
                   outcome, polls>>

\* the waiter polls the socket and finds it not ready
WaitNotReady(t) ==
    /\ pc[t] \in {"wait_rw", "wait_r"}
    /\ polls[t] < MaxPolls
    /\ polls' = [polls EXCEPT ![t] = @ + 1]
    /\ UNCHANGED <<data_vars, adapt_vars, conn_vars, native_vars, lock, pc, command, status, results,
                   outcome, ready>>

\* input consumed whatever the generator is resumed with
resume_consumes_always(p, r) == consume_input(p)

\* lines 91-92: `if ready is Ready.R: pgconn.consume_input()`
resume_flush(p, r) == IF r = "R" THEN consume_input(p) ELSE p

\* lines 90-93: resumed with a Ready; consume input if it is R, flush again
FlushResume(t) ==
    /\ pc[t] = "wait_rw"
    /\ \E r \in ReadyFor(pgconn, "RW") :
          /\ ready' = [ready EXCEPT ![t] = r]
          /\ pgconn' = resume_flush(pgconn, r)
    /\ pc' = [pc EXCEPT ![t] = "flush"]
    /\ polls' = [polls EXCEPT ![t] = 0]
    /\ UNCHANGED <<data_vars, adapt_vars, conn_vars, wire, reply, lock, command, status, results,
                   outcome>>

\* the new result put before the ones already pulled
prepend_result(rs, res) == <<res>> \o rs

\* line 102: results.append(res)
append_result(rs, res) == Append(rs, res)

\* lines 99-104 and 140-145 on a PGconn p that is not busy: get_result gives
\* the next result, which is appended, or None, which ends the generator and
\* lets the facade judge the list
TakeResult(t, p) ==
    IF p.inbuf # <<>> /\ Head(p.inbuf).type = "result"
    THEN /\ pgconn' = [p EXCEPT !.inbuf = Tail(@)]
         /\ results' = [results EXCEPT ![t] = append_result(@, Head(p.inbuf).status)]
         /\ pc' = [pc EXCEPT ![t] = "drain"]
         /\ UNCHANGED <<lock, outcome, command>>
    ELSE /\ pgconn' = IF p.inbuf = <<>> THEN p
                      ELSE [p EXCEPT !.inbuf = Tail(@), !.active = FALSE,
                                     !.xact = Head(p.inbuf).status]
         /\ Leave(t, check_results(results[t]))
         /\ UNCHANGED results

\* line 99: get_result on PGconn p. Called on a busy PGconn it reads the
\* socket itself and, as long as no whole message is there, blocks in the
\* kernel.
GetResult(t, p) ==
    IF is_busy(p)
    THEN LET q == consume_input(p)
         IN IF is_busy(q)
            THEN /\ pgconn' = q
                 /\ pc' = [pc EXCEPT ![t] = "blocked"]
                 /\ UNCHANGED <<lock, outcome, results, command>>
            ELSE TakeResult(t, q)
    ELSE TakeResult(t, p)

\* lines 96-102: consume input; yield (fd, R) if busy, else pull a result
ExecDrain(t) ==
    /\ pc[t] = "drain"
    /\ LET p == consume_input(pgconn)
       IN IF drain_waits(p)
          THEN /\ pgconn' = p
               /\ pc' = [pc EXCEPT ![t] = "wait_r"]
               /\ UNCHANGED <<lock, outcome, results, command>>
          ELSE GetResult(t, p)
    /\ UNCHANGED <<data_vars, adapt_vars, conn_vars, wire, reply, status, polls, ready>>

\* lines 98-102: resumed after the yield of (fd, R); pull a result
DrainResume(t) ==
    /\ pc[t] = "wait_r"
    /\ "R" \in ReadyFor(pgconn, "R")
    /\ GetResult(t, pgconn)
    /\ polls' = [polls EXCEPT ![t] = 0]
    /\ UNCHANGED <<data_vars, adapt_vars, conn_vars, wire, reply, status, ready>>

\* get_result, blocked in the kernel, is woken by data on the socket
GetResultWakes(t) ==
    /\ pc[t] = "blocked"
    /\ Readable(pgconn)
    /\ LET q == consume_input(pgconn)
       IN IF is_busy(q)
          THEN /\ pgconn' = q
               /\ UNCHANGED <<lock, pc, outcome, results, command>>
          ELSE TakeResult(t, q)
    /\ UNCHANGED <<data_vars, adapt_vars, conn_vars, wire, reply, status, polls, ready>>

\* ------------------------------------------------------------ environment

\* some bytes of the server's next message reach the socket
ServerSendsPart ==
    /\ wire # <<>>
    /\ ~pgconn.part
    /\ pgconn' = [pgconn EXCEPT !.part = TRUE]
    /\ UNCHANGED <<data_vars, adapt_vars, conn_vars, wire, reply, thread_vars>>

\* the server's next message is on the socket, whole
ServerSends ==
    /\ wire # <<>>
    /\ pgconn' = [pgconn EXCEPT !.sock = Append(@, Head(wire)), !.part = FALSE]
    /\ wire' = Tail(wire)
    /\ UNCHANGED <<data_vars, adapt_vars, conn_vars, reply, thread_vars>>

\* another user of the connection (a cursor) runs a statement under the lock
\* and leaves a transaction open
OtherQuery ==
    /\ facade
    /\ lock = "free"
    /\ transaction_status(pgconn) = "IDLE"
    /\ pgconn' = [pgconn EXCEPT !.xact = "INTRANS"]
    /\ UNCHANGED <<data_vars, adapt_vars, conn_vars, wire, reply, thread_vars>>

\* the socket fails while a command is being sent: from now on flush
\* reports an error
SocketBreaks ==
    /\ \E t \in Threads : pc[t] \in {"flush", "wait_rw"}
    /\ ~pgconn.broken
    /\ pgconn' = [pgconn EXCEPT !.broken = TRUE]
    /\ UNCHANGED <<data_vars, adapt_vars, conn_vars, wire, reply, thread_vars>>

\* ------------------------------------------------ Transformer and adapters

engine_vars == <<conn_vars, native_vars, thread_vars>>

\* `for dmap in self._dumpers_maps` taken from the far end of the list
farthest(S) == CHOOSE i \in S : \A j \in S : i >= j
\* `for dmap in self._dumpers_maps`, `for tcmap in self._loaders_maps`: of the
\* positions S of the list, the one the loop comes to first
nearest(S) == CHOOSE i \in S : \A j \in S : i <= j

\* the branch of a Transformer context going on to append the global maps
setup_context_no_return(x, context) ==
    IF context = "None" THEN [own |-> x, maps |-> <<x, "global">>]
    ELSE IF context \in AllTx
    THEN [own |-> tx[context].dumpers,
          maps |-> Append(tx[context].dumpers_maps, "global")]
    ELSE IF context = "cursor"
    THEN [own |-> x, maps |-> <<x, "cursor", "connection", "global">>]
    ELSE [own |-> x, maps |-> <<x, "connection", "global">>]

\* Transformer._setup_context: the map the Transformer owns and the list of
\* the maps it looks in. The dumpers and the loaders lists are built alike,
\* from maps of the same owners.
setup_context(x, context) ==
    IF context = "None" THEN [own |-> x, maps |-> <<x, "global">>]
    ELSE IF context \in AllTx
    THEN [own |-> tx[context].dumpers, maps |-> tx[context].dumpers_maps]
    ELSE IF context = "cursor"
    THEN [own |-> x, maps |-> <<x, "cursor", "connection", "global">>]
    ELSE [own |-> x, maps |-> <<x, "connection", "global">>]

\* every registration written in the global map
where_global(context) == "global"

\* context.dumpers if context else Dumper.globals
where(context) ==
    IF context = "None" THEN "global"
    ELSE IF context \in AllTx THEN tx[context].dumpers
    ELSE context

\* Transformer(context)
NewTransformer(x, context) ==
    /\ ~tx[x].made
    /\ context \in AllTx => tx[context].made
    /\ LET c == setup_context(x, context)
       IN  tx' = [tx EXCEPT ![x] =
                     [made |-> TRUE, context |-> context,
                      dumpers |-> c.own, loaders |-> c.own,
                      dumpers_maps |-> c.maps, loaders_maps |-> c.maps,
                      dumpers_cache |-> EmptyMap, loaders_cache |-> EmptyMap]]
    /\ last' = NoCall
    /\ UNCHANGED <<data_vars, engine_vars, dumpers, loaders, ninst, nreg, side>>

\* a register() call: the class it is called on and its arguments
register_call(op, cls, key, context, format, error) ==
    [NoCall EXCEPT !.op = op, !.cls = cls, !.key = key, !.context = context,
                   !.format = format, !.error = error]

\* Dumper.register(src, context, format), called on the class cls
RegisterDumper(cls, src, context, format) ==
    /\ nreg < MaxReg
    /\ side = "dumpers"
    /\ context \in AllTx => tx[context].made
    /\ IF src[1] \notin {"str", "type"}
       THEN /\ last' = register_call("Dumper.register", cls, src, context, format,
                                     "TypeError")
            /\ UNCHANGED dumpers
       ELSE /\ dumpers' = [dumpers EXCEPT ![where(context)] =
                                          MapSet(@, <<src, format>>, cls)]
            /\ last' = register_call("Dumper.register", cls, src, context, format,
                                     "None")
    /\ nreg' = nreg + 1
    /\ UNCHANGED <<data_vars, engine_vars, loaders, tx, ninst, side>>

\* Loader.register(oid, context, format), called on the class cls
RegisterLoader(cls, oid, context, format) ==
    /\ nreg < MaxReg
    /\ side = "loaders"
    /\ context \in AllTx => tx[context].made
    /\ IF oid[1] # "int"
       THEN /\ last' = register_call("Loader.register", cls, oid, context, format,
                                     "TypeError")
            /\ UNCHANGED loaders
       ELSE /\ loaders' = [loaders EXCEPT ![where(context)] =
                                          MapSet(@, <<oid[2], format>>, cls)]
            /\ last' = register_call("Loader.register", cls, oid, context, format,
                                     "None")
    /\ nreg' = nreg + 1
    /\ UNCHANGED <<data_vars, engine_vars, dumpers, tx, ninst, side>>

\* the (map, class) pairs the first loop of get_dumper would stop at: the
\* positions in the list of maps and in the MRO where a dumper is registered
type_hits(maps, c, format) ==
    {h \in (1..Len(maps)) \X (1..Len(mro(c))) :
        MapGet(dumpers[maps[h[1]]], <<TypeKey(mro(c)[h[2]]), format>>) # "None"}

\* the same for the second loop, which looks for the name of the class
name_hits(maps, c, format) ==
    {h \in (1..Len(maps)) \X (1..Len(mro(c))) :
        MapGet(dumpers[maps[h[1]]],
               <<NameKey(fqn(c, mro(c)[h[2]])), format>>) # "None"}

\* the nested loops keeping the last class of the MRO registered in the map
first_hit_last_class(H) ==
    LET i == nearest({h[1] : h \in H})
    IN  <<i, CHOOSE j \in {h[2] : h \in {g \in H : g[1] = i}} :
                 \A h \in H : h[1] = i => j >= h[2]>>

\* the loops nested the other way, classes outside and maps inside
first_hit_mro_outer(H) ==
    LET j == nearest({h[2] : h \in H})
    IN  <<CHOOSE i \in {h[1] : h \in {g \in H : g[2] = j}} :
              \A h \in H : h[2] = j => i <= h[1], j>>

\* where the nested loops, maps outside and classes inside, stop
first_hit(H) ==
    LET i == nearest({h[1] : h \in H})
    IN  <<i, CHOOSE j \in {h[2] : h \in {g \in H : g[1] = i}} :
                 \A h \in H : h[1] = i => j <= h[2]>>

\* the key get_dumper stores the new Dumper under in _dumpers_cache
dumper_cache_key(cls, scls, format) == <<scls, format>>

\* Transformer.get_dumper for a value of class c: what is returned or raised,
\* and the cache and the maps it leaves.
get_dumper(x, c, format) ==
    LET t == tx[x]
        maps == t.dumpers_maps
        th == type_hits(maps, c, format)
        nh == name_hits(maps, c, format)
    IN  IF <<c, format>> \in DOMAIN t.dumpers_cache
        THEN [ret |-> t.dumpers_cache[<<c, format>>], error |-> "None", new |-> 0,
              cached |-> TRUE,
              cache |-> t.dumpers_cache, dumpers |-> dumpers]
        ELSE IF th # {}
        THEN LET h == first_hit(th)
                 scls == mro(c)[h[2]]
                 d == NewDumper(dumpers[maps[h[1]]][<<TypeKey(scls), format>>],
                                scls, x, format,
                                next_id(t.dumpers_cache,
                                        dumper_cache_key(c, scls, format)))
             IN  [ret |-> d, error |-> "None", new |-> 1, cached |-> FALSE,
                  cache |-> MapSet(t.dumpers_cache,
                                   dumper_cache_key(c, scls, format), d),
                  dumpers |-> dumpers]
        ELSE IF nh # {}
        THEN LET h == first_hit(nh)
                 scls == mro(c)[h[2]]
                 dumper_class == dumpers[maps[h[1]]][<<NameKey(fqn(c, scls)), format>>]
                 d == NewDumper(dumper_class, scls, x, format,
                                next_id(t.dumpers_cache,
                                        dumper_cache_key(c, scls, format)))
             IN  [ret |-> d, error |-> "None", new |-> 1, cached |-> FALSE,
                  cache |-> MapSet(t.dumpers_cache,
                                   dumper_cache_key(c, scls, format), d),
                  dumpers |-> [dumpers EXCEPT ![maps[h[1]]] =
                                  MapSet(@, <<TypeKey(scls), format>>, dumper_class)]]
        ELSE [ret |-> NoInst, error |-> "ProgrammingError", new |-> 0,
              cached |-> FALSE,
              cache |-> t.dumpers_cache, dumpers |-> dumpers]

\* tx.get_dumper(obj, format) with obj of class c
GetDumper(x, c, format) ==
    /\ tx[x].made
    /\ side = "dumpers"
    /\ LET r == get_dumper(x, c, format)
       IN  /\ ninst + r.new <= MaxInst
           /\ tx' = [tx EXCEPT ![x].dumpers_cache = r.cache]
           /\ dumpers' = r.dumpers
           /\ ninst' = ninst + r.new
           /\ last' = [op |-> "get_dumper", tx |-> x, cls |-> c, oid |-> INVALID_OID,
                       format |-> format, fmod |-> -1, cached |-> r.cached,
                       ret |-> r.ret, error |-> r.error, key |-> NoKey,
                       context |-> "None"]
    /\ UNCHANGED <<data_vars, engine_vars, loaders, nreg, side>>

\* no map is looked in: every oid falls back on the loader of INVALID_OID
loader_hits_none(maps, oid, format) == {}

\* the positions of the list of maps where a loader of (oid, format) is
loader_hits(maps, oid, format) ==
    {i \in 1..Len(maps) : <<oid, format>> \in DOMAIN loaders[maps[i]]}

\* a cache keyed without the type modifier
loader_cache_key_no_fmod(oid, format, fmod) == <<oid, format, -1>>

\* key = (oid, format, fmod)
loader_cache_key(oid, format, fmod) == <<oid, format, fmod>>

\* Transformer.get_loader, on the Transformer x whose _loaders_cache is cache
get_loader_in(cache, x, oid, format, fmod) ==
    LET maps == tx[x].loaders_maps
        key == loader_cache_key(oid, format, fmod)
        lh == loader_hits(maps, oid, format)
        loader_cls == IF lh # {} THEN loaders[maps[nearest(lh)]][<<oid, format>>]
                      ELSE loaders["global"][<<INVALID_OID, format>>]
        l == NewLoader(loader_cls, oid, fmod, x, format, next_id(cache, key))
    IN  IF key \in DOMAIN cache
        THEN [ret |-> cache[key], new |-> 0, cached |-> TRUE, cache |-> cache]
        ELSE [ret |-> l, new |-> 1, cached |-> FALSE,
              cache |-> MapSet(cache, key, l)]

\* Transformer.get_loader
get_loader(x, oid, format, fmod) ==
    get_loader_in(tx[x].loaders_cache, x, oid, format, fmod)

\* tx.get_loader(oid, format, fmod)
GetLoader(x, oid, format, fmod) ==
    /\ tx[x].made
    /\ side = "loaders"
    /\ LET r == get_loader(x, oid, format, fmod)
       IN  /\ ninst + r.new <= MaxInst
           /\ tx' = [tx EXCEPT ![x].loaders_cache = r.cache]
           /\ ninst' = ninst + r.new
           /\ last' = [op |-> "get_loader", tx |-> x, cls |-> "None", oid |-> oid,
                       format |-> format, fmod |-> fmod, cached |-> r.cached,
                       ret |-> r.ret, error |-> "None", key |-> NoKey,
                       context |-> "None"]
    /\ UNCHANGED <<data_vars, engine_vars, dumpers, loaders, nreg, side>>

AdaptNext ==
    \/ \E x \in TxIds, context \in Contexts : NewTransformer(x, context)
    \/ \E src \in DumperSrcs, context \in Contexts, format \in Formats :
          RegisterDumper(DumperClass(context), src, context, format)
    \/ \E oid \in LoaderOids, context \in Contexts, format \in Formats :
          RegisterLoader(LoaderClass(context), OidKey(oid), context, format)
    \/ \E x \in TxIds, c \in Types, format \in Formats : GetDumper(x, c, format)
    \/ \E x \in TxIds, oid \in {TEXT_OID, RECORD_OID}, format \in Formats,
          fmod \in Fmods : GetLoader(x, oid, format, fmod)

AdaptSpec == AdaptInit /\ [][AdaptNext]_vars

\* the type modifiers get_loader is called with: none, and one of a column
Typmods == {-1, 8}

\* the registry of the loaders, asked with more than one type modifier
TypmodNext ==
    \/ \E x \in TxIds, context \in Contexts : NewTransformer(x, context)
    \/ \E oid \in LoaderOids, context \in Contexts, format \in Formats :
          RegisterLoader(LoaderClass(context), OidKey(oid), context, format)
    \/ \E x \in TxIds, oid \in LoaderOids, format \in Formats, fmod \in Typmods :
          GetLoader(x, oid, format, fmod)

TypmodSpec == AdaptInit /\ [][TypmodNext]_vars

\* Transformers made from no context, from the connection, from a cursor and
\* from one another
NestNext ==
    \E x \in AllTx, context \in Contexts \cup AllTx : NewTransformer(x, context)

NestSpec == AdaptInit /\ [][NestNext]_vars

\* the names a dumper is registered on: "{module}.{qualname}" of a class
NameSrcs == {NameKey(module(c) \o "." \o qualname(c)) : c \in {"Point", "tuple"}}

\* the registry with dumpers registered by name
NameNext ==
    \/ \E x \in TxIds, context \in Contexts : NewTransformer(x, context)
    \/ \E src \in NameSrcs, context \in Contexts, format \in Formats :
          RegisterDumper(DumperClass(context), src, context, format)
    \/ \E x \in TxIds, c \in Types, format \in Formats : GetDumper(x, c, format)

NameSpec == AdaptInit /\ [][NameNext]_vars

\* the registry with dumpers registered on classes and by name, in the format
\* no dumper is registered in at import
OrderNext ==
    \/ \E x \in TxIds, context \in Contexts : NewTransformer(x, context)
    \/ \E src \in DumperSrcs \cup NameSrcs, context \in Contexts :
          RegisterDumper(DumperClass(context), src, context, "BINARY")
    \/ \E x \in TxIds, c \in Types : GetDumper(x, c, "BINARY")

OrderSpec == AdaptInit /\ [][OrderNext]_vars

\* what register() is called with that is neither a class, nor a str, nor
\* an int: None; and a str where an int is expected
WrongDumperSrcs == {NoKey, OidKey(TEXT_OID)}
WrongLoaderOids == {NoKey, NameKey("text")}

\* the registry with register() called on keys of every kind
RegNext ==
    \/ \E x \in TxIds, context \in Contexts : NewTransformer(x, context)
    \/ \E src \in DumperSrcs \cup NameSrcs \cup WrongDumperSrcs,
          context \in Contexts, format \in Formats :
          RegisterDumper(DumperClass(context), src, context, format)
    \/ \E oid \in {OidKey(o) : o \in LoaderOids} \cup WrongLoaderOids,
          context \in Contexts, format \in Formats :
          RegisterLoader(LoaderClass(context), oid, context, format)

RegSpec == AdaptInit /\ [][RegNext]_vars

\* ---------------------------------------------- Transformer: row loading

\* The list comprehension of set_row_types from its i-th element on: the
\* loaders of the columns, the cache get_loader leaves and the number of
\* Loader objects it constructed. fmods is () or as long as types.
RECURSIVE row_types_from(_, _, _, _, _, _)
row_types_from(i, cache, x, types, formats, fmods) ==
    IF i > Len(types) THEN [loaders |-> <<>>, cache |-> cache, new |-> 0]
    ELSE LET r == get_loader_in(cache, x, types[i], formats[i],
                                IF fmods # <<>> THEN fmods[i] ELSE -1)
             rest == row_types_from(i + 1, r.cache, x, types, formats, fmods)
         IN  [loaders |-> <<r.ret>> \o rest.loaders, cache |-> rest.cache,
              new |-> r.new + rest.new]

\* Transformer.set_row_types
set_row_types(x, types, formats, fmods) ==
    row_types_from(1, tx[x].loaders_cache, x, types, formats, fmods)

\* the types, formats and fmods the pgresult setter reads from the result
result_types(res) == res.ftype
result_formats(res) == [i \in 1..res.nfields |-> res.format]
result_fmods(res) == [i \in 1..res.nfields |-> -1]

\* tx.pgresult = res
SetPgresult(x, res) ==
    /\ tx[x].made
    /\ IF res.none
       THEN /\ row' = [row EXCEPT !.pgresult = res, !.nfields = 0, !.ntuples = 0]
            /\ UNCHANGED <<tx, ninst>>
       ELSE LET r == set_row_types(x, result_types(res), result_formats(res),
                                   result_fmods(res))
            IN  /\ row' = [pgresult |-> res, nfields |-> res.nfields,
                           ntuples |-> res.ntuples, row_loaders |-> r.loaders]
                /\ tx' = [tx EXCEPT ![x].loaders_cache = r.cache]
                /\ ninst' = ninst + r.new
    /\ rcall' = NoRowCall
    /\ UNCHANGED <<engine_vars, dumpers, loaders, nreg, side, last, codec, rbl>>

\* tx.set_row_types(types, formats), called by the user of the Transformer
SetRowTypes(x, types, formats) ==
    /\ tx[x].made
    /\ LET r == set_row_types(x, types, formats, <<>>)
       IN  /\ row' = [row EXCEPT !.row_loaders = r.loaders]
           /\ tx' = [tx EXCEPT ![x].loaders_cache = r.cache]
           /\ ninst' = ninst + r.new
    /\ rcall' = NoRowCall
    /\ UNCHANGED <<engine_vars, dumpers, loaders, nreg, side, last, codec, rbl>>

\* the columns of the row i whose cell is not NULL
loaded_columns(i) ==
    {c \in 0..(row.nfields - 1) : row.pgresult.value[<<i, c>>] # "None"}

\* Transformer.load_row: None, the tuple, or the IndexError of a column
\* that has no entry in _row_loaders; and the columns whose loader was called
load_row(i) ==
    LET res == row.pgresult
        missing == {c \in loaded_columns(i) : c + 1 > Len(row.row_loaders)}
        stop == IF missing = {} THEN row.nfields
                ELSE CHOOSE c \in missing : \A d \in missing : c <= d
    IN  IF res.none \/ i >= row.ntuples
        THEN [op |-> "load_row", arg |-> i, none |-> TRUE, ret |-> <<>>,
              invoked |-> {}, error |-> "None"]
        ELSE IF missing # {}
        THEN [op |-> "load_row", arg |-> i, none |-> FALSE, ret |-> <<>>,
              invoked |-> {c \in loaded_columns(i) : c < stop},
              error |-> "IndexError"]
        ELSE [op |-> "load_row", arg |-> i, none |-> FALSE,
              ret |-> [c \in 1..row.nfields |->
                          IF res.value[<<i, c - 1>>] = "None" THEN NullValue
                          ELSE Loaded(row.row_loaders[c], res.value[<<i, c - 1>>])],
              invoked |-> loaded_columns(i), error |-> "None"]

\* tx.load_row(i)
LoadRow(x, i) ==
    /\ tx[x].made
    /\ rcall' = load_row(i)
    /\ UNCHANGED <<engine_vars, adapt_vars, row, codec, rbl>>

\* the types set_row_types is called with by a user
RowTypes == UNION {[1..n -> {TEXT_OID, RECORD_OID}] : n \in 0..MaxFields}

RowNext ==
    \/ \E x \in TxIds, context \in Contexts : NewTransformer(x, context)
    \/ \E x \in TxIds, res \in PGresults \cup {NoResult} : SetPgresult(x, res)
    \/ \E x \in TxIds, types \in RowTypes, format \in RowFormats :
          SetRowTypes(x, types, [i \in 1..Len(types) |-> format])
    \/ \E x \in TxIds, i \in 0..(MaxTuples + 1) : LoadRow(x, i)

RowSpec == AdaptInit /\ [][RowNext]_vars

\* ------------------------------------------- composite: the binary records

\* A field of a record as the server sends it: the oid of its type and its
\* payload, empty or not, or no payload for a NULL. A record is up to
\* MaxFields of them.
BinPayloads == {<<>>, <<7>>}
BinFields ==
    [oid : {TEXT_OID, RECORD_OID}, null : {TRUE}, payload : {<<>>}]
    \cup [oid : {TEXT_OID, RECORD_OID}, null : {FALSE}, payload : BinPayloads]
BinRecords == UNION {[1..n -> BinFields] : n \in 0..MaxFields}

\* The record on the wire: the number of fields, then for each field its
\* oid, its length (-1 for a NULL) and the bytes of the payload. Each
\* integer of the header, 4 bytes on the wire, is one element here, so the
\* offsets 4 and 8 of the code are 1 and 2.
RECURSIVE bin_fields_from(_, _)
bin_fields_from(fields, k) ==
    IF k > Len(fields) THEN <<>>
    ELSE <<fields[k].oid,
           IF fields[k].null THEN -1 ELSE Len(fields[k].payload)>>
         \o fields[k].payload \o bin_fields_from(fields, k + 1)
bin_record(fields) == <<Len(fields)>> \o bin_fields_from(fields, 1)

\* data[a:b], a and b counted from 0, cut at the end of data
slice(data, a, b) ==
    SubSeq(data, a + 1, IF b < Len(data) THEN b ELSE Len(data))

\* the walk moving past the length of every field, a NULL one too
advance_always(length) == 2 + length

\* i += (8 + length) if length > 0 else 8
advance(length) == IF length > 0 THEN 2 + length ELSE 2

\* RecordBinaryLoader._walk_record: the (oid, offset, length) of the fields,
\* from the offset i on for the n fields left
RECURSIVE walk_record_from(_, _, _)
walk_record_from(data, i, n) ==
    IF n <= 0 THEN <<>>
    ELSE LET oid == data[i + 1]
             length == data[i + 2]
         IN  <<[oid |-> oid, offset |-> i + 2, length |-> length]>>
             \o walk_record_from(data, i + advance(length), n - 1)
walk_record(data) == walk_record_from(data, 1, data[1])

\* Transformer.load_sequence on the Transformer whose _row_loaders is
\* row_loaders: the tuple, or the IndexError of the first value that is not
\* None and has no entry in _row_loaders; and the positions whose loader
\* was called
load_sequence(row_loaders, record) ==
    LET notnone == {k \in 1..Len(record) : ~record[k].null}
        missing == {k \in notnone : k > Len(row_loaders)}
        stop == IF missing = {} THEN Len(record) + 1
                ELSE CHOOSE k \in missing : \A d \in missing : k <= d
    IN  IF missing # {}
        THEN [ret |-> <<>>, invoked |-> {k \in notnone : k < stop},
              error |-> "IndexError"]
        ELSE [ret |-> [k \in 1..Len(record) |->
                          IF record[k].null THEN NullValue
                          ELSE Loaded(row_loaders[k], record[k].data)],
              invoked |-> notnone, error |-> "None"]

\* the tuple RecordBinaryLoader.load gives to load_sequence
walked_values(data) ==
    LET w == walk_record(data)
    IN  [k \in 1..Len(w) |->
            IF w[k].length # -1
            THEN [null |-> FALSE,
                  data |-> slice(data, w[k].offset, w[k].offset + w[k].length)]
            ELSE [null |-> TRUE, data |-> <<>>]]

\* RecordBinaryLoader._config_types
config_types(x, data) ==
    LET w == walk_record(data)
        oids == [k \in 1..Len(w) |-> w[k].oid]
        formats == [k \in 1..Len(w) |-> "BINARY"]
    IN  set_row_types(x, oids, formats, <<>>)

\* loader.load(data), on the RecordBinaryLoader whose Transformer is x, of
\* the record the server sent with the fields `fields`
RecordBinaryLoad(x, fields) ==
    /\ tx[x].made
    /\ side = "loaders"
    /\ LET data == bin_record(fields)
           r == config_types(x, data)
           row_loaders == IF rbl.types_set THEN row.row_loaders ELSE r.loaders
           l == load_sequence(row_loaders, walked_values(data))
       IN  /\ IF rbl.types_set
              THEN UNCHANGED <<row, tx, ninst>>
              ELSE /\ row' = [row EXCEPT !.row_loaders = r.loaders]
                   /\ tx' = [tx EXCEPT ![x].loaders_cache = r.cache]
                   /\ ninst' = ninst + r.new
           /\ rbl' = [types_set |-> TRUE]
           /\ rcall' = [op |-> "load", arg |-> fields, none |-> FALSE,
                        ret |-> l.ret, invoked |-> l.invoked, error |-> l.error]
    /\ UNCHANGED <<engine_vars, dumpers, loaders, nreg, side, last, codec>>

\* a RecordBinaryLoader made with its Transformer, loading records
BinNext ==
    \/ \E x \in TxIds, context \in {"None", "cursor"} : NewTransformer(x, context)
    \/ \E x \in TxIds, fields \in BinRecords : RecordBinaryLoad(x, fields)

BinSpec == AdaptInit /\ [][BinNext]_vars

\* -------------------------------------------------- composite: the records

\* the bytes a text form is made of: a plain one and the ones the record
\* syntax gives a meaning to
Bytes == {"a", "\"", ",", " ", "(", ")", "\\"}

\* the text forms: what dumper.dump(item) returns for the items of a tuple
TextForms == UNION {[1..n -> Bytes] : n \in 0..MaxBytes}

\* an item of a tuple: None, or a value with its text form
NoneItem == [null |-> TRUE, data |-> <<>>]
Items == {NoneItem} \cup [null : {FALSE}, data : TextForms]

\* the tuples given to TupleDumper.dump
Tuples == UNION {[1..n -> Items] : n \in 0..MaxItems}

\* data[i], or "" past the end of data
At(data, i) == IF i \in 1..Len(data) THEN data[i] ELSE ""

\* TupleDumper._re_needs_quotes.search(ad)
re_needs_quotes(ad) ==
    \/ ad = <<>>
    \/ \E i \in 1..Len(ad) : ad[i] \in {"\"", ",", "\\", " "}

\* TupleDumper._re_escape.sub(br"\1\1", ad)
RECURSIVE re_escape(_)
re_escape(ad) ==
    IF ad = <<>> THEN <<>>
    ELSE (IF Head(ad) \in {"\""} THEN <<Head(ad), Head(ad)>> ELSE <<Head(ad)>>)
             \o re_escape(Tail(ad))

\* what TupleDumper.dump appends to parts for the items from the i-th on
RECURSIVE dump_parts(_, _)
dump_parts(obj, i) ==
    IF i > Len(obj) THEN <<>>
    ELSE (IF obj[i].null THEN <<",">>
          ELSE LET ad == obj[i].data
               IN  (IF re_needs_quotes(ad)
                    THEN <<"\"">> \o re_escape(ad) \o <<"\"">>
                    ELSE ad) \o <<",">>)
             \o dump_parts(obj, i + 1)

\* TupleDumper.dump
dump(obj) ==
    IF obj = <<>> THEN <<"(", ")">>
    ELSE LET parts == <<"(">> \o dump_parts(obj, 1)
         IN  SubSeq(parts, 1, Len(parts) - 1) \o <<")">>

\* RecordLoader._re_tokenize, second alternative: the index of the double
\* quote that closes the quoted string whose content starts at j, 0 if none
RECURSIVE quoted_end(_, _)
quoted_end(data, j) ==
    IF j > Len(data) THEN 0
    ELSE IF data[j] # "\"" THEN quoted_end(data, j + 1)
    ELSE IF At(data, j + 1) = "\"" THEN quoted_end(data, j + 2)
    ELSE IF At(data, j + 1) \in {",", ")"} THEN j
    ELSE 0

\* RecordLoader._re_tokenize, third alternative: the index after the longest
\* run of [^",)] that starts at j
RECURSIVE unquoted_end(_, _)
unquoted_end(data, j) ==
    IF j > Len(data) \/ data[j] \in {"\"", ",", ")"} THEN j
    ELSE unquoted_end(data, j + 1)

\* RecordLoader._re_tokenize matched at pos: the group that took part, its
\* bytes and the index after the match
re_tokenize_match(data, pos) ==
    LET p == IF data[pos] = "(" THEN pos + 1 ELSE pos
        q == quoted_end(data, p + 1)
        u == unquoted_end(data, p)
    IN  IF At(data, p) \in {",", ")"}
        THEN [group |-> 1, token |-> <<data[p]>>, end |-> p + 1]
        ELSE IF At(data, p) = "\"" /\ q # 0
        THEN [group |-> 2, token |-> SubSeq(data, p + 1, q - 1), end |-> q + 2]
        ELSE IF u > p /\ At(data, u) \in {",", ")"}
        THEN [group |-> 3, token |-> SubSeq(data, p, u - 1), end |-> u + 1]
        ELSE [group |-> 0, token |-> <<>>, end |-> pos + 1]

\* RecordLoader._re_undouble.sub(br"\1", token)
RECURSIVE re_undouble(_)
re_undouble(token) ==
    IF token = <<>> THEN <<>>
    ELSE IF Head(token) \in {"\"", "\\"} /\ At(token, 2) = Head(token)
    THEN <<Head(token)>> \o re_undouble(Tail(Tail(token)))
    ELSE <<Head(token)>> \o re_undouble(Tail(token))

\* what the element loader of RecordLoader.load returns for a token
cast(token) == [null |-> FALSE, data |-> token]

\* RecordLoader._parse_record from pos on, each token given to cast
RECURSIVE parse_record_from(_, _)
parse_record_from(data, pos) ==
    IF pos > Len(data) THEN <<>>
    ELSE LET m == re_tokenize_match(data, pos)
         IN  (CASE m.group = 1 -> <<NoneItem>>
                [] m.group = 2 -> <<cast(re_undouble(m.token))>>
                [] m.group = 3 -> <<cast(m.token)>>
                [] OTHER -> <<>>)
                 \o parse_record_from(data, m.end)

\* RecordLoader.load
load(data) ==
    IF data = <<"(", ")">> THEN <<>> ELSE parse_record_from(data, 1)

\* TupleDumper(tuple).dump(t); dump and load keep no state between calls:
\* a run dumps one tuple and loads it
Dump(t) ==
    /\ codec.op = "none"
    /\ codec' = [op |-> "dump", t |-> t, dumped |-> dump(t), loaded |-> <<>>]
    /\ UNCHANGED <<engine_vars, adapt_vars, row, rcall, rbl>>

\* RecordLoader(RECORD_OID).load(data), data being the record just dumped
Load ==
    /\ codec.op = "dump"
    /\ codec' = [codec EXCEPT !.op = "load", !.loaded = load(codec.dumped)]
    /\ UNCHANGED <<engine_vars, adapt_vars, row, rcall, rbl>>

CodecNext ==
    \/ \E t \in Tuples : Dump(t)
    \/ Load

CodecSpec == AdaptInit /\ [][CodecNext]_vars

\* ---------------------------------------------------------- specification

ThreadStep(t) ==
    \/ Acquire(t)
    \/ ReadStatus(t)
    \/ ExecFlush(t)
    \/ FlushResume(t)
    \/ ExecDrain(t)
    \/ DrainResume(t)
    \/ GetResultWakes(t)

Next ==
    \/ ConnectStart
    \/ ConnectLoop
    \/ ConnectNotReady
    \/ ConnectResume
    \/ ConnectFacade
    \/ \E t \in Threads, cmd \in {"commit", "rollback"} : Call(t, cmd)
    \/ \E t \in Threads : ThreadStep(t)
    \/ \E t \in Threads : WaitNotReady(t)
    \/ ServerSendsPart
    \/ ServerSends
    \/ OtherQuery

Spec == Init /\ [][Next]_vars

\* the connection on a socket that can fail
ErrNext ==
    \/ Next
    \/ SocketBreaks

ErrSpec == Init /\ [][ErrNext]_vars

FairSpec ==
    /\ Spec
    /\ WF_vars(ConnectStart)
    /\ WF_vars(ConnectLoop)
    /\ WF_vars(ConnectResume)
    /\ WF_vars(ConnectFacade)
    /\ \A t \in Threads : WF_vars(ThreadStep(t))
    /\ WF_vars(ServerSends)


\* ------------------------------------------------------------------ claims

\* C1: commit() or rollback() on a connection whose transaction status is
\* IDLE hands nothing to the native client (the PGconn and the wire are left
\* as they were, no generator is started), raises nothing, and has released
\* the lock when it returns.
C1_IdleReturnsSilently ==
    /\ [](\A t \in Threads :
            (pc[t] = "done" /\ status[t] = "IDLE") =>
                /\ outcome[t] = "ok"
                /\ results[t] = <<>> /\ reply[t] = <<>>
                /\ lock # t)
    /\ [][\A t \in Threads :
            (pc[t] = "locked" /\ pc'[t] # "locked"
                /\ transaction_status(pgconn) = "IDLE") =>
                /\ pgconn' = pgconn /\ wire' = wire
                /\ pc'[t] = "done" /\ outcome'[t] = "ok"
                /\ lock' = "free"]_vars

\* a call that found the connection IDLE has returned
C1_Witness ==
    \E t \in Threads :
        /\ pc[t] = "done" /\ status[t] = "IDLE"
        /\ outcome[t] = "ok" /\ lock = "free"

\* C2: with a non-IDLE transaction status the call succeeds only if the
\* generator returns exactly one result, of status COMMAND_OK; every other
\* list of results is reported as OperationalError.
C2_AnythingElseIsOperationalError ==
    \A t \in Threads :
        (pc[t] = "done" /\ status[t] # "IDLE") =>
            outcome[t] = IF results[t] = <<"COMMAND_OK">> THEN "ok"
                         ELSE "OperationalError"

\* C3: in the drain phase get_result is called only on a PGconn that is not
\* busy (the generator, resumed after its yield of (fd, R), is at a PGconn
\* that is not busy when it pulls the result), so that no call blocks on the
\* socket.
C3_GetResultOnlyWhenNotBusy ==
    /\ [](\A t \in Threads : pc[t] # "blocked")
    /\ [][\A t \in Threads :
            (pc[t] = "wait_r" /\ pc'[t] # "wait_r") => ~is_busy(pgconn)]_vars

\* what a connect attempt ends with, from the native client's behaviour alone
RECURSIVE ConnectExpected(_, _)
ConnectExpected(st, script) ==
    IF st = "BAD" THEN "OperationalError"
    ELSE IF script = <<>> THEN "none"
    ELSE LET s == Head(script)
         IN CASE s.verdict = "OK" -> "handle"
              [] s.verdict = "FAILED" -> "OperationalError"
              [] s.verdict \in {"READING", "WRITING"} ->
                   ConnectExpected(s.status, Tail(script))
              [] OTHER -> "InternalError"

\* C4: for a fixed behaviour of the native client, the connect machine and
\* the execute-drain machine end, and end with the same value, whatever the
\* waiter's polls find and whenever the data arrives: the connect ends with
\* what the script of verdicts determines, the generator returns the results
\* the server sent.
C4_ScheduleIndependent ==
    /\ [](cpc \in {"returned", "failed"} =>
            ConnectExpected(start_status, poll_script)
                = IF cpc = "returned" THEN "handle" ELSE conn_error)
    /\ [](\A t \in Threads :
            (pc[t] = "done" /\ status[t] # "IDLE") => results[t] = reply[t])
    /\ <>(cpc \in {"returned", "failed"})
    /\ \A t \in Threads : (pc[t] \in InCall) ~> (pc[t] = "done")

\* a generator that was resumed before the data had all arrived, and blocked
\* in get_result, has returned both results of the reply
C4_Witness ==
    \E t \in Threads :
        /\ pc[t] = "done" /\ Len(results[t]) = 2 /\ results[t] = reply[t]
        /\ cpc = "connected" /\ nb_sets = 1

\* C5: the nonblocking flag is set exactly once in a connect that returns a
\* handle, after the verdict OK and before the return; it is not set while
\* the machine is polling or waiting, nor in a connect that fails.
C5_NonblockingSetOnce ==
    /\ cpc \in {"start", "loop", "wait", "failed"} =>
          nb_sets = 0 /\ pgconn.nonblocking = 0
    /\ cpc \in {"returned", "connected"} =>
          nb_sets = 1 /\ pgconn.nonblocking = 1
    /\ cpc = "returned" => verdict = "OK"

\* a connect has returned its handle after a wait
C5_Witness ==
    cpc = "returned" /\ npolled >= 2 /\ nb_sets = 1 /\ pgconn.nonblocking = 1

\* C6: the connect machine raises OperationalError when the status is BAD at
\* the start of an iteration or the verdict is FAILED, and InternalError on a
\* verdict that is none of OK, READING, WRITING, FAILED; then it returns no
\* handle, now or later, and connect() constructs no Connection.
C6_ConnectErrors ==
    /\ [](cpc = "failed" =>
            /\ ~facade
            /\ verdict # "OK"
            /\ conn_error =
                 CASE verdict \in {"NONE", "READING", "WRITING"} -> "OperationalError"
                   [] verdict = "FAILED" -> "OperationalError"
                   [] OTHER -> "InternalError"
            /\ verdict \in {"NONE", "READING", "WRITING"} => pgconn.status = "BAD")
    /\ [](verdict \notin {"NONE", "OK", "READING", "WRITING"} => cpc = "failed")
    /\ [](facade => conn_error = "none")
    /\ [][(cpc = "loop" /\ pgconn.status = "BAD") =>
            (cpc' = "failed" /\ conn_error' = "OperationalError")]_vars
    /\ [][cpc = "failed" => cpc' = "failed"]_vars

\* a connect has failed on a connection that went BAD while the machine was
\* waiting to read
C6_Witness ==
    /\ cpc = "failed" /\ verdict = "READING"
    /\ conn_error = "OperationalError" /\ ~facade

\* C7: the calls on one connection exclude each other: a thread is inside
\* the `with` block exactly while it holds the lock, at most one thread is,
\* a command is in progress on the PGconn only on behalf of that thread, and
\* the lock is free again after every way out of the block.
C7_MutualExclusion ==
    /\ Cardinality({ t \in Threads : pc[t] \in InCall }) <= 1
    /\ \A t \in Threads : pc[t] \in InCall <=> lock = t
    /\ lock \in Threads \cup {"free"}
    /\ pgconn.active => \E t \in Threads : lock = t /\ pc[t] \in InCall \ {"locked"}

\* a call has left the block with an error, and a later call is inside it
C7_Witness ==
    \E t, u \in Threads :
        /\ pc[t] = "done" /\ outcome[t] \in {"OperationalError", "ValueError"}
        /\ pc[u] = "wait_r" /\ lock = u


\* ------------------------------------------------- claims on adaptation

\* the maps the Transformer of the last call looks in, innermost first
LastMaps == tx[last.tx].dumpers_maps
\* the map m registers a dumper on the class c in the format f
Registers(m, c, f) == <<TypeKey(c), f>> \in DOMAIN dumpers[m]
\* the position of the class a in the MRO of the class c, 0 if it is not there
MroIndex(a, c) ==
    IF \E j \in DOMAIN mro(c) : mro(c)[j] = a
    THEN CHOOSE j \in DOMAIN mro(c) : mro(c)[j] = a
    ELSE 0
\* D is registered on (U, f) in the s-th visible map, no visible map nearer
\* than it registers (U, f), and no visible map registers (A, f) for a class
\* A before U in the MRO of T
LiskovCase(T, U, f, s) ==
    /\ MroIndex(U, T) > 0
    /\ Registers(LastMaps[s], U, f)
    /\ \A s2 \in 1..(s - 1) : ~Registers(LastMaps[s2], U, f)
    /\ \A s2 \in DOMAIN LastMaps, A \in Types :
          (MroIndex(A, T) > 0 /\ MroIndex(A, T) < MroIndex(U, T))
              => ~Registers(LastMaps[s2], A, f)
\* no visible map nearer than the s-th registers (A, f) for a class A of the
\* MRO of T
NoNearerAncestor(T, f, s) ==
    \A s2 \in 1..(s - 1), A \in Types :
        MroIndex(A, T) > 0 => ~Registers(LastMaps[s2], A, f)
\* the last call returned an instance of the dumper class the s-th visible
\* map registers on (U, f)
ReturnedDumperOf(U, f, s) ==
    /\ last.error = "None"
    /\ last.ret.cls = dumpers[LastMaps[s]][<<TypeKey(U), f>>]

ScopeLists ==
    \A x \in TxIds :
        /\ (tx[x].made /\ tx[x].context = "connection") =>
              /\ tx[x].dumpers_maps = <<tx[x].dumpers, "connection", "global">>
              /\ tx[x].loaders_maps = <<tx[x].loaders, "connection", "global">>
        /\ (tx[x].made /\ tx[x].context = "cursor") =>
              /\ tx[x].dumpers_maps = <<tx[x].dumpers, "cursor", "connection", "global">>
              /\ tx[x].loaders_maps = <<tx[x].loaders, "cursor", "connection", "global">>
\* the s-th visible map is the nearest of several that register a dumper on
\* (T, f)
NearestOfSeveralDumpers(T, f, s) ==
    /\ Registers(LastMaps[s], T, f)
    /\ \A s2 \in 1..(s - 1) : ~Registers(LastMaps[s2], T, f)
    /\ \E s3 \in (s + 1)..Len(LastMaps) : Registers(LastMaps[s3], T, f)
\* the same for the loaders of (oid, f)
LastLoaderMaps == tx[last.tx].loaders_maps
NearestOfSeveralLoaders(oid, f, s) ==
    /\ <<oid, f>> \in DOMAIN loaders[LastLoaderMaps[s]]
    /\ \A s2 \in 1..(s - 1) : <<oid, f>> \notin DOMAIN loaders[LastLoaderMaps[s2]]
    /\ \E s3 \in (s + 1)..Len(LastLoaderMaps) :
          <<oid, f>> \in DOMAIN loaders[LastLoaderMaps[s3]]
\* a loader looked up on a cache miss is of the class of the nearest map
LoaderPrecedence ==
    (last.op = "get_loader" /\ ~last.cached) =>
        \A s \in DOMAIN LastLoaderMaps :
            NearestOfSeveralLoaders(last.oid, last.format, s)
                => last.ret.cls = loaders[LastLoaderMaps[s]][<<last.oid, last.format>>]

\* C9 as stated: when the same (key, format) is registered in more than one
\* visible scope, the codec resolved on a cache miss is the one of the
\* innermost of them, and the visible scopes are [local, connection, global]
\* or [local, cursor, connection, global].
C9_ScopePrecedence ==
    /\ ScopeLists
    /\ LoaderPrecedence
    /\ (last.op = "get_dumper" /\ ~last.cached) =>
          \A s \in DOMAIN LastMaps :
              NearestOfSeveralDumpers(last.cls, last.format, s)
                  => (last.error = "None" /\ last.ret.cls =
                         dumpers[LastMaps[s]][<<TypeKey(last.cls), last.format>>])

\* C9, amended: for a dumper the innermost registration of (T, format) wins
\* when no scope nearer than it registers a dumper on a superclass of T in
\* that format; for a loader it always wins; the lists of visible scopes are
\* as stated.
C9_ScopePrecedenceNoNearerAncestor ==
    /\ ScopeLists
    /\ LoaderPrecedence
    /\ (last.op = "get_dumper" /\ ~last.cached) =>
          \A s \in DOMAIN LastMaps :
              (NearestOfSeveralDumpers(last.cls, last.format, s)
                  /\ NoNearerAncestor(last.cls, last.format, s))
                  => (last.error = "None" /\ last.ret.cls =
                         dumpers[LastMaps[s]][<<TypeKey(last.cls), last.format>>])

\* a Transformer made from a cursor resolved a tuple, on a cache miss, to the
\* dumper the cursor registers on tuple and not to the different ones the
\* connection and the process register
C9_Witness ==
    /\ last.op = "get_dumper"
    /\ ~last.cached
    /\ last.cls = "tuple"
    /\ tx[last.tx].context = "cursor"
    /\ \E s \in DOMAIN LastMaps :
          /\ LastMaps[s] = "cursor"
          /\ NearestOfSeveralDumpers("tuple", last.format, s)
          /\ NoNearerAncestor("tuple", last.format, s)
          /\ Registers("global", "tuple", last.format)
          /\ dumpers["global"][<<TypeKey("tuple"), last.format>>]
                 # dumpers["cursor"][<<TypeKey("tuple"), last.format>>]
          /\ last.ret.cls = dumpers["cursor"][<<TypeKey("tuple"), last.format>>]

\* C10 as stated: two get_dumper calls on one Transformer for values of the
\* same class and format return the same instance, which is in the cache
\* under the class of the value.
C10_CacheCoherence ==
    [][(/\ last.op = "get_dumper"
        /\ last.error = "None"
        /\ last'.op = "get_dumper"
        /\ last'.tx = last.tx
        /\ last'.cls = last.cls
        /\ last'.format = last.format)
          => (/\ last'.ret = last.ret
              /\ <<last.cls, last.format>> \in DOMAIN tx'[last.tx].dumpers_cache
              /\ tx'[last.tx].dumpers_cache[<<last.cls, last.format>>] = last.ret)]_vars

\* --------------------------------------------- claims on the row loading

\* C12 as stated: whenever a result is attached to the Transformer (after
\* any sequence of attaching, replacing and detaching results and of direct
\* set_row_types calls) the row-decoder vector has exactly as many entries
\* as the result has columns.
C12_RowLoadersMatchColumns ==
    ~row.pgresult.none => Len(row.row_loaders) = row.pgresult.nfields

\* C11 as stated: with a result attached, load_row(i) returns a tuple of
\* exactly nfields elements for 0 <= i < ntuples and None for i >= ntuples,
\* and None when no result is attached; a NULL cell is None at its column
\* and no loader is called for it.
C11_RowShape ==
    rcall.op = "load_row" =>
        IF ~row.pgresult.none /\ rcall.arg < row.pgresult.ntuples
        THEN /\ rcall.error = "None"
             /\ ~rcall.none
             /\ Len(rcall.ret) = row.pgresult.nfields
             /\ \A c \in 0..(row.pgresult.nfields - 1) :
                    row.pgresult.value[<<rcall.arg, c>>] = "None"
                        => /\ rcall.ret[c + 1] = NullValue
                           /\ c \notin rcall.invoked
        ELSE /\ rcall.error = "None"
             /\ rcall.none

\* --------------------------------------------------- claims on the records

\* the tuple dumped has no None item: every item has a text form
AllTextForms(t) == \A i \in 1..Len(t) : ~t[i].null

\* C13 as stated: parsing TupleDumper.dump(t) with the text RecordLoader
\* yields a tuple of the same length whose i-th element is the text form of
\* t[i], whatever bytes the text forms are made of.
C13_RecordRoundTrip ==
    (codec.op = "load" /\ AllTextForms(codec.t))
        => /\ Len(codec.loaded) = Len(codec.t)
           /\ \A i \in 1..Len(codec.t) :
                  /\ ~codec.loaded[i].null
                  /\ codec.loaded[i].data = codec.t[i].data

\* ------------------------------------------- claims on failure and writes

\* some map the Transformer x looks in holds, for the format, the type key or
\* the "{module}.{qualname}" string key of a class of the MRO of c
HoldsKeyFor(x, c, format) ==
    \E i \in 1..Len(tx[x].dumpers_maps), j \in 1..Len(mro(c)) :
        LET scls == mro(c)[j]
            keys == DOMAIN dumpers[tx[x].dumpers_maps[i]]
        IN  \/ <<TypeKey(scls), format>> \in keys
            \/ <<NameKey(module(scls) \o "." \o qualname(scls)), format>> \in keys

\* C14 as stated: get_dumper fails with ProgrammingError exactly when no map
\* the Transformer looks in holds a type key or a qualified-name key, for the
\* format, of a class of the MRO of the value's class; and a failing call
\* leaves the dumper cache and every map unchanged.
C14_FailsIffNoKey ==
    /\ [](last.op = "get_dumper" =>
            (last.error = "ProgrammingError"
                <=> ~HoldsKeyFor(last.tx, last.cls, last.format)))
    /\ [][(last'.op = "get_dumper" /\ last'.error = "ProgrammingError")
              => UNCHANGED <<tx, dumpers>>]_vars

\* the map a registration in the context is meant for: the global one, or the
\* one of the connection, of the cursor or of the Transformer
MapOfContext(context) == IF context = "None" THEN "global" ELSE context

\* new is old with the one entry (k -> v) written in the map m
WritesOneEntry(old, new, m, k, v) ==
    \A n \in MapIds : new[n] = IF n = m THEN MapSet(old[n], k, v) ELSE old[n]

\* C15: a register() call with a key of the right kind (a class or a str for
\* a dumper, an int for a loader) writes the one entry (key, format) in the
\* global map when the context is None and in the map of the context
\* otherwise, and changes no other entry and no other map; with a key of the
\* wrong kind it raises TypeError and changes no map.
C15_RegisterWritesOneEntry ==
    [][nreg' = nreg + 1 =>
          /\ last'.op \in {"Dumper.register", "Loader.register"}
          /\ last'.op = "Dumper.register" =>
                IF last'.key[1] \in {"type", "str"}
                THEN /\ last'.error = "None"
                     /\ WritesOneEntry(dumpers, dumpers', MapOfContext(last'.context),
                                       <<last'.key, last'.format>>, last'.cls)
                     /\ loaders' = loaders
                ELSE /\ last'.error = "TypeError"
                     /\ UNCHANGED <<dumpers, loaders>>
          /\ last'.op = "Loader.register" =>
                IF last'.key[1] = "int"
                THEN /\ last'.error = "None"
                     /\ WritesOneEntry(loaders, loaders', MapOfContext(last'.context),
                                       <<last'.key[2], last'.format>>, last'.cls)
                     /\ dumpers' = dumpers
                ELSE /\ last'.error = "TypeError"
                     /\ UNCHANGED <<dumpers, loaders>>]_vars

\* a dumper has been registered on a class in the cursor: the map of the
\* cursor holds it and the global map is as it was at import
C15_Witness ==
    /\ last.op = "Dumper.register"
    /\ last.error = "None"
    /\ last.context = "cursor"
    /\ last.key = TypeKey("tuple")
    /\ MapGet(dumpers["cursor"], <<last.key, last.format>>) = last.cls
    /\ dumpers["global"] = DumperGlobals

\* ------------------------------------------ claims on the loader resolution

\* the class get_loader is to return an instance of: the one registered for
\* (oid, format) in the first of the maps that has it, else the one
\* registered globally for (INVALID_OID, format)
ResolvedLoaderClass(oid, f) ==
    LET has == {s \in DOMAIN LastLoaderMaps :
                   <<oid, f>> \in DOMAIN loaders[LastLoaderMaps[s]]}
    IN  IF has = {} THEN loaders["global"][<<INVALID_OID, f>>]
        ELSE loaders[LastLoaderMaps[CHOOSE s \in has : \A s2 \in has : s <= s2]]
                    [<<oid, f>>]

\* C16 as stated: get_loader never fails and returns an instance, carrying
\* the requested oid and type modifier, of the class registered for
\* (oid, format) in the innermost scope that has it, or of the class
\* registered for (INVALID_OID, format) when no scope has it.
C16_LoaderTotal ==
    last.op = "get_loader" =>
        /\ last.error = "None"
        /\ last.ret.oid = last.oid
        /\ last.ret.fmod = last.fmod
        /\ last.ret.cls = ResolvedLoaderClass(last.oid, last.format)

\* C16, amended: the class is the resolved one when the call is not
\* answered from the cache of the Transformer; a call answered from the cache
\* returns the instance cached for (oid, format, typmod), whatever has been
\* registered since it was made.
C16_LoaderTotalOnMiss ==
    last.op = "get_loader" =>
        /\ last.error = "None"
        /\ last.ret.oid = last.oid
        /\ last.ret.fmod = last.fmod
        /\ last.ret = tx[last.tx].loaders_cache[<<last.oid, last.format, last.fmod>>]
        /\ ~last.cached => last.ret.cls = ResolvedLoaderClass(last.oid, last.format)

\* a Transformer made from a cursor resolved the oid of text, which the
\* connection and the cursor register different loaders for, to the loader
\* of the cursor; the instance carries the oid of text, not INVALID_OID
C16_Witness ==
    /\ last.op = "get_loader"
    /\ ~last.cached
    /\ last.oid = TEXT_OID
    /\ tx[last.tx].context = "cursor"
    /\ <<TEXT_OID, last.format>> \in DOMAIN loaders["cursor"]
    /\ <<TEXT_OID, last.format>> \in DOMAIN loaders["connection"]
    /\ last.ret.cls = "CursorLoader"
    /\ last.ret.oid = TEXT_OID

\* -------------------------------------- claims on the execute-drain machine

\* C17 as stated: when flush returns a negative value the generator does not
\* yield, does not call flush again and does not enter the drain phase: the
\* call of the facade ends with the error.
C17_FlushErrorSurfaces ==
    [][\A t \in Threads :
          (pc[t] = "flush" /\ flush_rv(pgconn) < 0 /\ pc'[t] # pc[t])
              => /\ pc'[t] \notin {"wait_rw", "wait_r", "drain"}
                 /\ pc'[t] = "done"
                 /\ outcome'[t] \notin {"none", "ok"}]_vars

\* C18: a flush that reports more data to write is followed by one yield of
\* (fd, RW); resumed with R the generator calls consume_input, resumed with W
\* it does not, and in both cases it flushes again; the drain phase is
\* entered only from a flush that returned 0, and no result is pulled in the
\* flush phase.
C18_FlushPhase ==
    [][\A t \in Threads :
          /\ (pc[t] = "flush" /\ pc'[t] # "flush") =>
                IF flush_rv(pgconn) = 0 THEN pc'[t] = "drain" ELSE pc'[t] = "wait_rw"
          /\ (pc[t] = "wait_rw" /\ pc'[t] # "wait_rw") =>
                /\ pc'[t] = "flush"
                /\ ready'[t] \in {"R", "W"}
                /\ ready'[t] = "R" => /\ pgconn' = consume_input(pgconn)
                                      /\ pgconn' # pgconn
                /\ ready'[t] = "W" => pgconn' = pgconn
          /\ (pc'[t] = "drain" /\ pc[t] \notin {"drain", "wait_r", "blocked"}) =>
                /\ pc[t] = "flush"
                /\ flush_rv(pgconn) = 0
          /\ pc'[t] \in {"flush", "wait_rw"} =>
                /\ results'[t] = <<>>
                /\ pgconn'.inbuf \in {pgconn.inbuf, pgconn.inbuf \o pgconn.sock}]_vars

\* a generator that yielded (fd, RW) was resumed with R, has consumed the
\* input and is about to flush again
C18_Witness ==
    \E t \in Threads :
        /\ pc[t] = "flush"
        /\ ready[t] = "R"
        /\ pgconn.inbuf # <<>>
        /\ results[t] = <<>>

\* the messages the PGconn has received or has on its socket, oldest first
Received(p) == p.inbuf \o p.sock

\* C19: every non-null result get_result gives is appended to the list, in
\* the order given; the first null ends the generator, which returns the
\* list as it is; get_result is not called after that.
C19_ResultsInOrder ==
    [][/\ Len(Received(pgconn')) < Len(Received(pgconn)) =>
            \E t \in Threads :
                /\ lock = t
                /\ pc[t] \in {"drain", "wait_r", "blocked"}
                /\ Received(pgconn') = Tail(Received(pgconn))
                /\ IF Head(Received(pgconn)).type = "result"
                   THEN /\ results'[t] =
                               Append(results[t], Head(Received(pgconn)).status)
                        /\ pc'[t] # "done"
                   ELSE /\ results'[t] = results[t]
                        /\ pc'[t] = "done"
       /\ \A t \in Threads :
            /\ results'[t] # results[t] =>
                  Len(Received(pgconn')) < Len(Received(pgconn))
            /\ pc[t] = "done" => (pc'[t] = "done" /\ results'[t] = results[t])]_vars

\* a call has ended after its generator returned two different results, in
\* the order the server sent them
C19_Witness ==
    \E t \in Threads :
        /\ pc[t] = "done"
        /\ Len(results[t]) = 2
        /\ results[t][1] # results[t][2]
        /\ results[t] = reply[t]

\* ------------------------------------------- claims on the connect machine

\* what an iteration of the loop that polled does with the verdict: one
\* yield of (fd, R) for READING and of (fd, W) for WRITING, the return of the
\* handle for OK, and no yield otherwise
VerdictFollowed ==
    /\ verdict' = "READING" => (cpc' = "wait" /\ cinterest' = "R")
    /\ verdict' = "WRITING" => (cpc' = "wait" /\ cinterest' = "W")
    /\ verdict' = "OK" => (cpc' = "returned" /\ conn_error' = "none")
    /\ cpc' = "wait" => verdict' \in {"READING", "WRITING"}

\* the generator is resumed once per yield and polls only in its loop
ResumedToLoop ==
    (cpc = "wait" /\ cpc' # "wait") => (cpc' = "loop" /\ npolled' = npolled)

\* connect() has ended: with the handle or with an exception
ConnectEnded == cpc \in {"returned", "connected", "failed"}

\* C20 as stated: every iteration of the loop of the connect generator, the
\* first and the one after each resume, polls the native client exactly
\* once; READING is followed by one yield of (fd, R), WRITING by one of
\* (fd, W), and the first OK by the return of the handle; and the machine
\* terminates, the native client answering OK or FAILED in the end.
C20_ConnectMachine ==
    /\ [][/\ (cpc = "loop" /\ cpc' # "loop") =>
                (npolled' = npolled + 1 /\ VerdictFollowed)
          /\ ResumedToLoop]_vars
    /\ (cpc = "start") ~> ConnectEnded

\* C20, amended: an iteration that finds the connection status BAD raises
\* without polling; every other iteration polls exactly once and follows the
\* verdict as stated.
C20_ConnectMachineUnlessBad ==
    /\ [][/\ (cpc = "loop" /\ cpc' # "loop") =>
                IF pgconn.status = "BAD"
                THEN /\ npolled' = npolled
                     /\ cpc' = "failed"
                     /\ conn_error' = "OperationalError"
                ELSE /\ npolled' = npolled + 1
                     /\ VerdictFollowed
          /\ ResumedToLoop]_vars
    /\ (cpc = "start") ~> ConnectEnded

\* the generator polled twice: READING first, for which it yielded once and
\* was resumed, then OK, on which it returned the handle
C20_Witness ==
    /\ cpc = "returned"
    /\ npolled = 2
    /\ poll_script[1].verdict = "READING"
    /\ verdict = "OK"
    /\ pgconn.status = "OK"

\* ------------------------------------- claims on the resolution by name

\* "{module}.{qualname}" of the class c itself
OwnName(c) == NameKey(module(c) \o "." \o qualname(c))

\* no map of the Transformer x holds, for the format, the type key of a class
\* of the MRO of c
NoTypeKeyFor(x, c, format) ==
    \A i \in 1..Len(tx[x].dumpers_maps), j \in 1..Len(mro(c)) :
        <<TypeKey(mro(c)[j]), format>> \notin DOMAIN dumpers[tx[x].dumpers_maps[i]]

\* the (map, class) pairs where a dumper is registered under the own name of
\* a class of the MRO of c
OwnNameHits(x, c, format) ==
    {h \in (1..Len(tx[x].dumpers_maps)) \X (1..Len(mro(c))) :
        <<OwnName(mro(c)[h[2]]), format>> \in DOMAIN dumpers[tx[x].dumpers_maps[h[1]]]}

\* C21 as stated: with no type key matching, a dumper registered under the
\* string key "{module}.{qualname}" of a class U is found by get_dumper for
\* the instances of U and of every subclass of U, the name of each ancestor
\* being made of the ancestor's own module and qualified name; and the map
\* the name was found in gains the alias (U, format) -> the same class.
C21_FoundByOwnName ==
    [][(/\ last'.op = "get_dumper"
        /\ ~last'.cached
        /\ NoTypeKeyFor(last'.tx, last'.cls, last'.format)
        /\ OwnNameHits(last'.tx, last'.cls, last'.format) # {})
          => /\ last'.error = "None"
             /\ \E h \in OwnNameHits(last'.tx, last'.cls, last'.format) :
                   LET m == tx[last'.tx].dumpers_maps[h[1]]
                       U == mro(last'.cls)[h[2]]
                       D == dumpers[m][<<OwnName(U), last'.format>>]
                   IN  /\ last'.ret.cls = D
                       /\ <<TypeKey(U), last'.format>> \in DOMAIN dumpers'[m]
                       /\ dumpers'[m][<<TypeKey(U), last'.format>>] = D]_vars

\* ---------------------------------------- claims on the order of the walk

\* the (map, class) positions, in the list of maps of x and in the MRO of c,
\* where the type key of the class is registered
TypeKeyHits(x, c, format) ==
    {h \in (1..Len(tx[x].dumpers_maps)) \X (1..Len(mro(c))) :
        <<TypeKey(mro(c)[h[2]]), format>> \in DOMAIN dumpers[tx[x].dumpers_maps[h[1]]]}

\* the name get_dumper probes for the ancestor a of a value of class c
ProbedName(c, a) == NameKey(module(c) \o "." \o qualname(a))

\* the positions where the name probed for the class is registered
ProbedNameHits(x, c, format) ==
    {h \in (1..Len(tx[x].dumpers_maps)) \X (1..Len(mro(c))) :
        <<ProbedName(c, mro(c)[h[2]]), format>>
            \in DOMAIN dumpers[tx[x].dumpers_maps[h[1]]]}

\* the first of the positions H in the order (map, class)
LexFirst(H) ==
    CHOOSE h \in H : \A g \in H : h[1] < g[1] \/ (h[1] = g[1] /\ h[2] <= g[2])

\* C22: on a cache miss get_dumper returns the dumper of the first hit in
\* the order (scope, class of the MRO): a dumper registered on an ancestor in
\* an inner scope is chosen over one registered on the class itself in an
\* outer scope; and a name is looked for only when no type key is found in
\* any scope.
C22_ScopeThenAncestor ==
    [][(last'.op = "get_dumper" /\ ~last'.cached) =>
          LET x == last'.tx
              c == last'.cls
              f == last'.format
              TH == TypeKeyHits(x, c, f)
              NH == ProbedNameHits(x, c, f)
          IN  IF TH # {}
              THEN LET h == LexFirst(TH)
                   IN  /\ last'.error = "None"
                       /\ last'.ret.src = mro(c)[h[2]]
                       /\ last'.ret.cls =
                             dumpers[tx[x].dumpers_maps[h[1]]][<<TypeKey(mro(c)[h[2]]), f>>]
              ELSE NH # {} =>
                   LET h == LexFirst(NH)
                   IN  /\ last'.error = "None"
                       /\ last'.ret.src = mro(c)[h[2]]
                       /\ last'.ret.cls =
                             dumpers[tx[x].dumpers_maps[h[1]]]
                                    [<<ProbedName(c, mro(c)[h[2]]), f>>]]_vars

\* a tuple was resolved to the dumper the Transformer registers on object and
\* not to the different one registered globally on tuple itself
C22_Witness ==
    /\ last.op = "get_dumper"
    /\ ~last.cached
    /\ last.cls = "tuple"
    /\ last.ret.src = "object"
    /\ <<TypeKey("object"), last.format>> \in DOMAIN dumpers[last.tx]
    /\ <<TypeKey("tuple"), last.format>> \in DOMAIN dumpers["global"]
    /\ last.ret.cls = dumpers[last.tx][<<TypeKey("object"), last.format>>]
    /\ last.ret.cls # dumpers["global"][<<TypeKey("tuple"), last.format>>]

\* ---------------------------------------- claims on the cache of loaders

\* the keys of the loaders cache of x that differ from (oid, format, fmod)
\* in the type modifier only
OtherTypmods(x, oid, format, fmod) ==
    {k \in DOMAIN tx[x].loaders_cache :
        k[1] = oid /\ k[2] = format /\ k[3] # fmod}

\* C23 as stated: the loaders one Transformer holds for keys that differ in
\* the type modifier only are distinct instances of the same loader class.
C23_TypmodsShareClass ==
    \A x \in TxIds : \A k \in DOMAIN tx[x].loaders_cache :
        \A k2 \in OtherTypmods(x, k[1], k[2], k[3]) :
            /\ tx[x].loaders_cache[k] # tx[x].loaders_cache[k2]
            /\ tx[x].loaders_cache[k].cls = tx[x].loaders_cache[k2].cls

\* C23, amended: a get_loader call with an (oid, format, typmod) asked before
\* returns the instance returned before, whatever was registered since; a
\* call returns an instance distinct from every one held for another type
\* modifier of the same (oid, format); and two instances made by one call
\* right after the other, nothing registered in between, have the same class.
C23_TypmodsShareClassUnlessRegistered ==
    [][last'.op = "get_loader" =>
          LET x == last'.tx
              key == <<last'.oid, last'.format, last'.fmod>>
          IN  /\ last'.error = "None"
              /\ key \in DOMAIN tx[x].loaders_cache
                    => /\ last'.cached
                       /\ last'.ret = tx[x].loaders_cache[key]
              /\ \A k2 \in OtherTypmods(x, last'.oid, last'.format, last'.fmod) :
                    last'.ret # tx[x].loaders_cache[k2]
              /\ last'.ret.oid = last'.oid /\ last'.ret.fmod = last'.fmod
              /\ (/\ last.op = "get_loader" /\ last.tx = x
                  /\ last.oid = last'.oid /\ last.format = last'.format
                  /\ last.fmod # last'.fmod
                  /\ ~last.cached /\ ~last'.cached)
                    => last'.ret.cls = last.ret.cls]_vars

\* a call was answered with the instance made before a loader was registered
\* for its oid in a map the Transformer looks in, and the Transformer holds
\* another instance of the same class for the other type modifier
C23_Witness ==
    /\ last.op = "get_loader"
    /\ last.cached
    /\ last.oid = TEXT_OID
    /\ last.ret = tx[last.tx].loaders_cache[<<last.oid, last.format, last.fmod>>]
    /\ \E i \in 1..Len(tx[last.tx].loaders_maps) :
          /\ <<last.oid, last.format>> \in DOMAIN loaders[tx[last.tx].loaders_maps[i]]
          /\ loaders[tx[last.tx].loaders_maps[i]][<<last.oid, last.format>>]
                # last.ret.cls
    /\ \E k2 \in OtherTypmods(last.tx, last.oid, last.format, last.fmod) :
          /\ tx[last.tx].loaders_cache[k2] # last.ret
          /\ tx[last.tx].loaders_cache[k2].cls = last.ret.cls

\* ---------------------------------------- claims on the lists of maps

\* the positions of the global map in a list of maps
GlobalAt(maps) == {i \in 1..Len(maps) : maps[i] = "global"}

\* C24: a Transformer made from a Transformer has the lists of dumpers and
\* of loaders maps of its parent, the same maps in the same order, the map
\* the parent owns among them; and in each list of every Transformer,
\* however it was made, the global map occurs once, as the last element.
C24_NestedSharesMaps ==
    \A x \in AllTx : tx[x].made =>
        /\ tx[x].context \in AllTx =>
              /\ tx[x].dumpers_maps = tx[tx[x].context].dumpers_maps
              /\ tx[x].loaders_maps = tx[tx[x].context].loaders_maps
              /\ \E i \in 1..Len(tx[x].dumpers_maps) :
                    tx[x].dumpers_maps[i] = tx[tx[x].context].dumpers
              /\ \E i \in 1..Len(tx[x].loaders_maps) :
                    tx[x].loaders_maps[i] = tx[tx[x].context].loaders
        /\ GlobalAt(tx[x].dumpers_maps) = {Len(tx[x].dumpers_maps)}
        /\ GlobalAt(tx[x].loaders_maps) = {Len(tx[x].loaders_maps)}

\* a Transformer made from one made from one made from a cursor: nested
\* twice, it looks in the map of the outermost one, then in those of the
\* cursor and of the connection, then in the global one
C24_Witness ==
    \E a, b, c \in AllTx :
        /\ tx[a].made /\ tx[b].made /\ tx[c].made
        /\ tx[a].context = "cursor"
        /\ tx[b].context = a
        /\ tx[c].context = b
        /\ tx[c].dumpers_maps = <<a, "cursor", "connection", "global">>
        /\ tx[c].loaders_maps = <<a, "cursor", "connection", "global">>

\* ---------------------------------------- claims on the binary records

\* the fields of the record sent that are not NULL
NotNullFields(fields) == {k \in 1..Len(fields) : ~fields[k].null}

\* the inner Transformer is configured by the first record loaded, with a
\* loader of the oid of each field in binary format, and by no later one
ConfiguredOnce(fields) ==
    /\ rbl'.types_set
    /\ IF rbl.types_set
       THEN row'.row_loaders = row.row_loaders
       ELSE /\ Len(row'.row_loaders) = Len(fields)
            /\ \A k \in 1..Len(fields) :
                  /\ row'.row_loaders[k].oid = fields[k].oid
                  /\ row'.row_loaders[k].format = "BINARY"

\* the record is decoded by the loaders configured, field by field; a NULL
\* field gives a null and its loader is not called
DecodedByConfigured(fields) ==
    /\ rcall'.error = "None"
    /\ Len(rcall'.ret) = Len(fields)
    /\ \A k \in 1..Len(fields) :
          IF fields[k].null
          THEN rcall'.ret[k].null /\ k \notin rcall'.invoked
          ELSE /\ ~rcall'.ret[k].null
               /\ k \in rcall'.invoked
               /\ rcall'.ret[k].by = row'.row_loaders[k]
               /\ rcall'.ret[k].data = fields[k].payload

\* C25 as stated: a RecordBinaryLoader configures the row types of its
\* Transformer once, from the oids of the first record it loads, all in
\* binary format; every record it loads is decoded by the loaders chosen for
\* the first one, field i by the loader of field i, and a field of length -1
\* is returned as null with no loader called.
C25_TypesSetOnce ==
    [][rcall'.op = "load" =>
          /\ ConfiguredOnce(rcall'.arg)
          /\ DecodedByConfigured(rcall'.arg)]_vars

\* C25, amended: the same for every record whose fields that are not NULL
\* are within the number of fields of the first record; the load of a
\* record with such a field beyond them raises IndexError.
C25_TypesSetOnceWithinFirst ==
    [][rcall'.op = "load" =>
          /\ ConfiguredOnce(rcall'.arg)
          /\ IF \A k \in NotNullFields(rcall'.arg) : k <= Len(row'.row_loaders)
             THEN DecodedByConfigured(rcall'.arg)
             ELSE rcall'.error = "IndexError"]_vars

\* a later record was decoded: one of its fields by the loader chosen for a
\* field of another oid of the first record, and a NULL field as null
C25_Witness ==
    /\ rcall.op = "load"
    /\ rcall.error = "None"
    /\ rbl.types_set
    /\ \E k \in NotNullFields(rcall.arg) :
          /\ rcall.ret[k].by = row.row_loaders[k]
          /\ rcall.ret[k].by.oid # rcall.arg[k].oid
    /\ \E j \in 1..Len(rcall.arg) :
          rcall.arg[j].null /\ rcall.ret[j].null /\ j \notin rcall.invoked

\* ---------------------------------------- claims on the nulls of a tuple

\* C26: the tuple dumped and loaded back has as many fields as the tuple had
\* items, null at the positions of the None items and nowhere else; and only
\* the empty tuple is dumped as `()`.
C26_CountAndNulls ==
    /\ (codec.op = "load" /\ Len(codec.t) >= 1)
          => /\ Len(codec.loaded) = Len(codec.t)
             /\ \A i \in 1..Len(codec.t) : codec.loaded[i].null = codec.t[i].null
    /\ (codec.op # "none" /\ codec.dumped = <<"(", ")">>) => codec.t = <<>>

====
